---- MODULE Spec2Model ----
(***************************************************************************)
(* Model of the tool-calling orchestration engine of the RAG chatbot       *)
(* backend: AIGenerator.generate_response (backend/ai_generator.py) and    *)
(* the ToolManager and tools it relies on (backend/search_tools.py).       *)
(*                                                                         *)
(* Spec is one generate_response invocation with any arguments; SpecTM is  *)
(* a caller working on a ToolManager (register, execute, read, reset);     *)
(* SpecQ is a caller running queries one after the other on one            *)
(* ToolManager.                                                            *)
(*                                                                         *)
(* Python strings built with f-strings are modelled as sequences of        *)
(* string tokens, one token per literal piece or interpolated value, so    *)
(* "text s contains x" is "x is one of the tokens of s".                   *)
(* Optional values are None == <<>> or Some(v) == <<v>>.                   *)
(***************************************************************************)
EXTENDS Integers, Sequences, FiniteSets, TLC

\* ------------------------------------------------------------------ bounds
\* largest number of content blocks in one completion response
MaxBlocks == 2
\* largest number of matches store.search comes back with
MaxMatches == 2
\* largest number of queries a caller runs one after the other
MaxQueries == 2
\* most lessons in a course outline
MaxLessons == 3

\* ------------------------------------------------------- optional values
None == <<>>
Some(v) == <<v>>

\* Python truthiness of an Optional[str]: None and "" are falsy
TruthyStr(s) == s # None /\ s[1] # ""
\* Python truthiness of an Optional[List]: None and [] are falsy
TruthyList(l) == l # None /\ Len(l[1]) > 0
\* Python truthiness of an optional object reference
TruthyObj(o) == o # None

\* ------------------------------------------------- outcomes of a Python call
Return(v) == [kind |-> "return", value |-> v]
Raise(e) == [kind |-> "raise", value |-> <<e>>]

\* --------------------------------------------------------- ToolCallState
max_rounds == 2

\* mutant: the bound test is off by one
is_complete_late(round, bound) == round > bound

is_complete(round, bound) == round >= bound

\* f"Round {self.current_round}: {tool_name}"
RoundStr(r) == ToString(r)
\* mutant: the newest entry is put in front
add_tool_execution_front(log, round, tool_name) ==
    <<<<"Round ", RoundStr(round), ": ", tool_name>>>> \o log

add_tool_execution(log, round, tool_name) ==
    Append(log, <<"Round ", RoundStr(round), ": ", tool_name>>)

\* ------------------------------------------------------------ AIGenerator
SYSTEM_PROMPT == "SYSTEM_PROMPT"

\* the base system content built at the start of generate_response
system_content(history) ==
    IF TruthyStr(history)
    THEN <<SYSTEM_PROMPT, "\n\nPrevious conversation:\n", history[1]>>
    ELSE <<SYSTEM_PROMPT>>

\* mutant: every round gets the guidance of the first round
get_round_system_prompt_first(base_system_content, round_number) ==
    base_system_content \o <<"\nThis is your first opportunity to use tools.">>

get_round_system_prompt(base_system_content, round_number) ==
    base_system_content \o
    <<CASE round_number = 1 -> "\nThis is your first opportunity to use tools."
        [] round_number = 2 -> "\nThis is your second and final opportunity to use tools."
        [] OTHER -> "\nTool calling rounds are complete.">>

final_system_content(base_system_content) ==
    base_system_content \o <<"\n\nTool calling rounds complete.">>

\* mutant: the last round gets no tools
AttachTools_before_bound(toolList, round, bound) ==
    TruthyList(toolList) /\ round < bound

\* "if tools and state.current_round <= state.max_rounds"
AttachTools(toolList, round, bound) == TruthyList(toolList) /\ round <= bound

\* the keyword arguments of one client.messages.create call inside a round
round_api_params(msgs, sys, toolList, round, bound) ==
    [messages |-> msgs, system |-> sys,
     tools |-> IF AttachTools(toolList, round, bound) THEN toolList ELSE None,
     tool_choice |-> IF AttachTools(toolList, round, bound) THEN Some("auto") ELSE None]

\* the keyword arguments of the call made after the loop
final_params(msgs, sys) ==
    [messages |-> msgs, system |-> sys, tools |-> None, tool_choice |-> None]

\* mutant: no try/except around the in-round call
round_except_reraise(outcome) == outcome

\* mutant: the answer does not embed str(e)
round_except_no_cause(outcome) ==
    IF outcome.kind = "raise"
    THEN Return(<<"Error generating response: ">>)
    ELSE outcome

\* "except Exception as e" around each in-round call (lines 157-159)
round_except(outcome) ==
    IF outcome.kind = "raise"
    THEN Return(<<"Error generating response: ">> \o outcome.value)
    ELSE outcome

\* mutant: no try/except around the final call
final_except_reraise(outcome) == outcome

\* "except Exception as e" around the final call (lines 173-174)
final_except(outcome) ==
    IF outcome.kind = "raise"
    THEN Return(<<"Error generating final response: ">> \o outcome.value)
    ELSE outcome

\* response.content[0].text
FirstText(content) ==
    IF Len(content) = 0 THEN Raise("IndexError: list index out of range")
    ELSE IF content[1].type # "text"
         THEN Raise("AttributeError: 'ToolUseBlock' object has no attribute 'text'")
         ELSE Return(<<content[1].text>>)

\* mutant: the tool manager is not looked at
UsesTools_any_manager(response, manager) == response.stop_reason = "tool_use"

\* mutant: the stop reason is not looked at
UsesTools_any_stop(response, manager) == TruthyObj(manager)

\* "if response.stop_reason == 'tool_use' and tool_manager"
UsesTools(response, manager) ==
    response.stop_reason = "tool_use" /\ TruthyObj(manager)

\* error_msg = f"Tool {content_block.name} failed: {str(e)}"
tool_error_msg(tool_name, e) == <<"Tool ", tool_name, " failed: ">> \o e

\* mutant: a tool failure is reported with the provider-failure prefix
unable_to_complete_as_api_error(tool_error) ==
    <<"Error generating response: ">> \o tool_error

\* return f"Unable to complete search: {tool_error}"
unable_to_complete(tool_error) == <<"Unable to complete search: ">> \o tool_error

\* mutant: the tool's exception is not caught
tool_except_reraise(tool_name, outcome) == outcome

\* the "except Exception as e" of _execute_round_tools (lines 238-250)
\* followed by "if tool_error: return ..." of generate_response (150-151)
tool_except(tool_name, outcome) ==
    IF outcome.kind = "raise"
    THEN Return(unable_to_complete(tool_error_msg(tool_name, outcome.value)))
    ELSE outcome

\* the tool_result block built on the failure path (never appended to messages)
tool_error_block(block, error_msg) ==
    [type |-> "tool_result", tool_use_id |-> block.id, content |-> error_msg,
     is_error |-> TRUE]

\* mutant: the block of a successful dispatch carries the error flag
tool_result_block_flagged(block, text) ==
    [type |-> "tool_result", tool_use_id |-> block.id, content |-> text,
     is_error |-> TRUE]

\* the tool_result block appended after a successful dispatch
tool_result_block(block, text) ==
    [type |-> "tool_result", tool_use_id |-> block.id, content |-> text,
     is_error |-> FALSE]

\* mutant: the user turn with the results takes the place of the last message
append_tool_results_overwrite(msgs, results) ==
    IF Len(results) > 0
    THEN [msgs EXCEPT ![Len(msgs)] = [role |-> "user", content |-> results]]
    ELSE msgs

\* mutant: every tool result is appended as a user message of its own
append_tool_results_split(msgs, results) ==
    msgs \o [i \in 1..Len(results) |-> [role |-> "user", content |-> <<results[i]>>]]

\* "if tool_results: state.messages.append({'role': 'user', ...})"
append_tool_results(msgs, results) ==
    IF Len(results) > 0
    THEN Append(msgs, [role |-> "user", content |-> results])
    ELSE msgs

\* mutant: the loop is left with break, so the partial results are appended
tool_failure_messages_break(msgs, results) ==
    Append(msgs, [role |-> "user", content |-> results])

\* state.messages when a dispatch raised: "return error_msg" (line 250)
\* leaves _execute_round_tools before the append of lines 252-254
tool_failure_messages(msgs, results) == msgs

\* mutant: the for loop is left after the first tool_use block
NextToolUse_first_only(content, from) ==
    LET earlier == {i \in 1..(from - 1) : content[i].type = "tool_use"}
        later == {i \in from..Len(content) : content[i].type = "tool_use"}
    IN IF earlier # {} \/ later = {}
       THEN Len(content) + 1
       ELSE CHOOSE i \in later : \A j \in later : i <= j

\* index of the first tool_use block of content at or after position from,
\* Len(content) + 1 when there is none ("for content_block in ...: if
\* content_block.type == 'tool_use'")
RECURSIVE NextToolUse(_, _)
NextToolUse(content, from) ==
    IF from > Len(content) THEN Len(content) + 1
    ELSE IF content[from].type = "tool_use" THEN from
         ELSE NextToolUse(content, from + 1)

\* ------------------------------------------------------------ ToolManager
\* the names under which tools are registered (ToolManager.tools keys)
registered_tools == {"search_course_content", "get_course_outline"}

\* the tool objects a caller can hand to register_tool: the two tool
\* classes, and tools whose definition has an empty name or no name at all
ToolObjects ==
    {"CourseSearchTool", "CourseOutlineTool", "EmptyNameTool", "NamelessTool"}

\* tool.get_tool_definition(): the schema, with the name it declares and the
\* arguments it requires
get_tool_definition(tool) ==
    IF tool = "CourseSearchTool"
    THEN [name |-> Some("search_course_content"), required |-> <<"query">>]
    ELSE IF tool = "CourseOutlineTool"
    THEN [name |-> Some("get_course_outline"), required |-> <<"course_name">>]
    ELSE IF tool = "EmptyNameTool"
    THEN [name |-> Some(""), required |-> <<>>]
    ELSE [name |-> None, required |-> <<>>]

\* mutant: the manager turns a tool's exception into text
execute_tool_catching(registry, tool_name, exec_outcome) ==
    IF tool_name \notin registry
    THEN Return(<<"Tool '", tool_name, "' not found">>)
    ELSE IF exec_outcome.kind = "raise"
         THEN Return(<<"Tool execution failed: ">> \o exec_outcome.value)
         ELSE exec_outcome

\* mutant: the registry is indexed without the membership test
execute_tool_key_error(registry, tool_name, exec_outcome) ==
    IF tool_name \notin registry
    THEN Raise("KeyError")
    ELSE exec_outcome

\* ToolManager.execute_tool: exec_outcome is what the tool's execute does
execute_tool(registry, tool_name, exec_outcome) ==
    IF tool_name \notin registry
    THEN Return(<<"Tool '", tool_name, "' not found">>)
    ELSE exec_outcome

\* the keys of ToolManager.tools; the dict is modelled as the sequence of its
\* keys in insertion order, each key standing for the tool stored under it
tool_names(tm) == {tm[i] : i \in 1..Len(tm)}

\* ToolManager.register_tool for a tool with definition tool_def, whose
\* tool_def.get("name") is tool_def.name: a new key goes to the end of the
\* dict, a key already there keeps its place
register_tool(tm, tool_def) ==
    IF ~TruthyStr(tool_def.name) THEN tm
    ELSE IF tool_def.name[1] \in tool_names(tm) THEN tm
         ELSE Append(tm, tool_def.name[1])

\* mutant: only a definition without a name is refused ("is None")
register_outcome_none_only(tool_def) ==
    IF tool_def.name = None
    THEN Raise("Tool must have a 'name' in its definition")
    ELSE Return(None)

\* what register_tool returns or raises
register_outcome(tool_def) ==
    IF ~TruthyStr(tool_def.name)
    THEN Raise("Tool must have a 'name' in its definition")
    ELSE Return(None)

\* the tool stored under a key of ToolManager.tools
tool_under(tool_name) ==
    CHOOSE t \in ToolObjects : get_tool_definition(t).name = Some(tool_name)

\* mutant: the schemas come out last registered first
get_tool_definitions_reversed(tm) ==
    [i \in 1..Len(tm) |-> get_tool_definition(tool_under(tm[Len(tm) + 1 - i]))]

\* ToolManager.get_tool_definitions: the definition of each stored tool, in
\* the order of the dict
get_tool_definitions(tm) ==
    [i \in 1..Len(tm) |-> get_tool_definition(tool_under(tm[i]))]

\* the tools of the application, in the order they are registered
app_tools == <<"search_course_content", "get_course_outline">>

\* the schema list ToolManager.get_tool_definitions() yields for them
tool_definitions == get_tool_definitions(app_tools)

\* mutant: the batches of all tools are merged
get_last_sources_merged(tm, sources) ==
    IF Len(tm) = 0 THEN <<>>
    ELSE IF Len(tm) = 1 THEN sources[tm[1]]
         ELSE sources[tm[1]] \o sources[tm[2]]

\* ToolManager.get_last_sources: the batch of the first tool, in dict order,
\* whose last_sources is truthy; [] when there is none
get_last_sources(tm, sources) ==
    LET holders == {i \in 1..Len(tm) : Len(sources[tm[i]]) > 0} IN
    IF holders = {} THEN <<>>
    ELSE sources[tm[CHOOSE i \in holders : \A j \in holders : i <= j]]

\* mutant: reset_sources leaves every batch where it is
reset_sources_skip(tm, sources) == sources

\* mutant: only the first registered tool is reset
reset_sources_first(tm, sources) ==
    [n \in DOMAIN sources |->
        IF Len(tm) > 0 /\ n = tm[1] THEN <<>> ELSE sources[n]]

\* ToolManager.reset_sources: last_sources = [] for every registered tool
reset_sources(tm, sources) ==
    [n \in DOMAIN sources |-> IF n \in tool_names(tm) THEN <<>> ELSE sources[n]]

\* ------------------------------------------------------ CourseSearchTool
\* Python truthiness of an Optional[int]: None and 0 are falsy
TruthyInt(n) == n # None /\ n[1] # 0

\* "sep".join(parts) for texts that are token sequences
RECURSIVE Join(_, _)
Join(parts, sep) ==
    IF Len(parts) = 0 THEN <<>>
    ELSE IF Len(parts) = 1 THEN parts[1]
         ELSE parts[1] \o <<sep>> \o Join(Tail(parts), sep)

\* store.get_lesson_link of the course catalog the tools run against: the
\* catalog holds a link for lesson 1 only
get_lesson_link(course_title, lesson_num) ==
    IF lesson_num = 1
    THEN Some("https://example.com/" \o course_title \o "/lesson1")
    ELSE None

\* meta.get('course_title', 'unknown')
course_title_of(match) ==
    IF match.course_title = None THEN "unknown" ELSE match.course_title[1]

\* course_title, then " - Lesson {lesson_num}" when lesson_num is not None
\* (lines 98-106: the header between brackets and the source text)
source_text(match) ==
    <<course_title_of(match)>> \o
    (IF match.lesson_number # None
     THEN <<" - Lesson ", ToString(match.lesson_number[1])>>
     ELSE <<>>)

\* lines 109-111
lesson_link_of(match) ==
    IF match.lesson_number # None /\ course_title_of(match) # "unknown"
    THEN get_lesson_link(course_title_of(match), match.lesson_number[1])
    ELSE None

\* lines 114-116: {"text": source_text} plus "link" when the link is truthy
source_obj(text, link) ==
    [text |-> text, link |-> IF TruthyStr(link) THEN link ELSE None]

\* the sources list _format_results builds, one entry per match
format_sources(matches) ==
    [i \in 1..Len(matches) |->
        source_obj(source_text(matches[i]), lesson_link_of(matches[i]))]

\* the text _format_results returns
format_results(matches) ==
    Join([i \in 1..Len(matches) |->
             <<"[">> \o source_text(matches[i]) \o <<"]", "\n", matches[i].doc>>],
         "\n\n")

\* mutant: the new sources are added to the ones already held
assign_last_sources_extend(old, sources) == old \o sources

\* "self.last_sources = sources" (line 122)
assign_last_sources(old, sources) == sources

\* the message for an empty result set (lines 78-83)
no_content_found(course_name, lesson_number) ==
    <<"No relevant content found">> \o
    (IF TruthyStr(course_name) THEN <<" in course '", course_name[1], "'">> ELSE <<>>) \o
    (IF TruthyInt(lesson_number)
     THEN <<" in lesson ", ToString(lesson_number[1])>> ELSE <<>>) \o
    <<".">>

\* mutant: execute starts with self.last_sources = []
CourseSearchTool_execute_clearing(self_sources, course_name, lesson_number, search) ==
    IF search.kind = "raise"
    THEN [outcome |-> search, last_sources |-> <<>>]
    ELSE IF TruthyStr(search.value.error)
    THEN [outcome |-> Return(<<search.value.error[1]>>), last_sources |-> <<>>]
    ELSE IF Len(search.value.matches) = 0
    THEN [outcome |-> Return(no_content_found(course_name, lesson_number)),
          last_sources |-> <<>>]
    ELSE [outcome |-> Return(format_results(search.value.matches)),
          last_sources |-> format_sources(search.value.matches)]

\* mutant: an error of the search is raised instead of returned
CourseSearchTool_execute_error_raises(self_sources, course_name, lesson_number, search) ==
    IF search.kind = "raise"
    THEN [outcome |-> search, last_sources |-> self_sources]
    ELSE IF TruthyStr(search.value.error)
    THEN [outcome |-> Raise(search.value.error[1]), last_sources |-> self_sources]
    ELSE IF Len(search.value.matches) = 0
    THEN [outcome |-> Return(no_content_found(course_name, lesson_number)),
          last_sources |-> self_sources]
    ELSE [outcome |-> Return(format_results(search.value.matches)),
          last_sources |-> assign_last_sources(self_sources,
                                format_sources(search.value.matches))]

\* CourseSearchTool.execute: search is what store.search did for the given
\* arguments; the result is what execute returns or raises, and the value
\* of self.last_sources when it is left
CourseSearchTool_execute(self_sources, course_name, lesson_number, search) ==
    IF search.kind = "raise"
    THEN [outcome |-> search, last_sources |-> self_sources]
    ELSE IF TruthyStr(search.value.error)
    THEN [outcome |-> Return(<<search.value.error[1]>>),
          last_sources |-> self_sources]
    ELSE IF Len(search.value.matches) = 0
    THEN [outcome |-> Return(no_content_found(course_name, lesson_number)),
          last_sources |-> self_sources]
    ELSE [outcome |-> Return(format_results(search.value.matches)),
          last_sources |-> assign_last_sources(self_sources,
                                format_sources(search.value.matches))]

\* ----------------------------------------------------- CourseOutlineTool
\* lesson.get('lesson_number', 0), the sort key
lesson_key(lesson) ==
    IF lesson.lesson_number = None THEN 0 ELSE lesson.lesson_number[1]

\* mutant: a sort that puts a lesson behind the later lessons of equal number
RECURSIVE sorted_lessons_unstable(_)
sorted_lessons_unstable(lessons) ==
    IF Len(lessons) = 0 THEN <<>>
    ELSE LET rest == sorted_lessons_unstable(Tail(lessons))
             first == Head(lessons)
             before == SelectSeq(rest, LAMBDA l : lesson_key(l) <= lesson_key(first))
             after == SelectSeq(rest, LAMBDA l : lesson_key(l) > lesson_key(first))
         IN before \o <<first>> \o after

\* sorted(lessons, key=...): a stable sort, written as insertion from the right
RECURSIVE sorted_lessons(_)
sorted_lessons(lessons) ==
    IF Len(lessons) = 0 THEN <<>>
    ELSE LET rest == sorted_lessons(Tail(lessons))
             first == Head(lessons)
             before == SelectSeq(rest, LAMBDA l : lesson_key(l) < lesson_key(first))
             after == SelectSeq(rest, LAMBDA l : lesson_key(l) >= lesson_key(first))
         IN before \o <<first>> \o after

\* f"{lesson_num}. {lesson_title}\n" (lines 194-196)
lesson_line(lesson) ==
    << IF lesson.lesson_number = None THEN "?" ELSE ToString(lesson.lesson_number[1]),
       ". ",
       IF lesson.lesson_title = None THEN "Untitled" ELSE lesson.lesson_title[1],
       "\n" >>

RECURSIVE lesson_lines(_)
lesson_lines(lessons) ==
    IF Len(lessons) = 0 THEN <<>>
    ELSE lesson_line(Head(lessons)) \o lesson_lines(Tail(lessons))

\* formatted_output of lines 183-196
outline_text(course_title, course_link, lessons) ==
    <<"**", course_title, "**\n">> \o
    (IF TruthyStr(course_link) THEN <<"Course Link: ", course_link[1], "\n">> ELSE <<>>) \o
    <<"\n**Lessons (", ToString(Len(lessons)), " total):**\n">> \o
    lesson_lines(sorted_lessons(lessons))

\* lines 199-203: the single source of an outline
outline_sources(course_title, course_link) ==
    << source_obj(<<course_title, " - Course Outline">>, course_link) >>

\* json.loads(lessons_json): a document that does not parse raises
json_loads(doc) ==
    IF doc.valid THEN Return(doc.lessons)
    ELSE Raise("Expecting value: line 1 column 1 (char 0)")

\* mutant: no try/except in execute
outline_except_reraise(e) == [kind |-> "raise", value |-> e]

\* "except Exception as e" of execute (lines 207-208)
outline_except(e) == Return(<<"Error retrieving course outline: ">> \o e)

\* CourseOutlineTool.execute: resolve is what store._resolve_course_name did,
\* catalog what store.course_catalog.get came back with (its first metadata
\* entry, None when there is none)
CourseOutlineTool_execute(self_sources, course_name, resolve, catalog) ==
    IF resolve.kind = "raise"
    THEN [outcome |-> resolve, last_sources |-> self_sources]
    ELSE IF ~TruthyStr(resolve.value)
    THEN [outcome |-> Return(<<"No course found matching '", course_name, "'">>),
          last_sources |-> self_sources]
    ELSE IF catalog.kind = "raise"
    THEN [outcome |-> outline_except(catalog.value), last_sources |-> self_sources]
    ELSE IF catalog.value = None
    THEN [outcome |-> Return(<<"Course metadata not found for '",
                               resolve.value[1], "'">>),
          last_sources |-> self_sources]
    ELSE IF catalog.value[1].lessons_json = None
    THEN [outcome |-> Return(<<"No lesson information available for '",
                               resolve.value[1], "'">>),
          last_sources |-> self_sources]
    ELSE IF json_loads(catalog.value[1].lessons_json[1]).kind = "raise"
    THEN [outcome |-> outline_except(
                          json_loads(catalog.value[1].lessons_json[1]).value),
          last_sources |-> self_sources]
    ELSE [outcome |-> Return(outline_text(resolve.value[1],
                                 catalog.value[1].course_link,
                                 json_loads(catalog.value[1].lessons_json[1]).value)),
          last_sources |-> outline_sources(resolve.value[1],
                                           catalog.value[1].course_link)]

\* ------------------------------------------- a dispatch through the manager
\* self.tools[tool_name].execute(**kwargs) for the two registered tool
\* classes: call holds the keyword arguments and what the store does
tool_run(tool_name, self_sources, call) ==
    IF tool_name = "search_course_content"
    THEN CourseSearchTool_execute(self_sources, call.course_name,
                                  call.lesson_number, call.search)
    ELSE CourseOutlineTool_execute(self_sources, call.course_name,
                                   call.resolve, call.catalog)

\* ToolManager.execute_tool with its effect on the tools: what it returns or
\* raises, every tool's last_sources afterwards, whether a tool was executed,
\* and whether that execution assigned a batch to its last_sources (what a
\* tool built with last_sources = [] holds after the same call)
execute_tool_effect(tm, sources, tool_name, call) ==
    LET ran == tool_name \in tool_names(tm)
        run == IF ran THEN tool_run(tool_name, sources[tool_name], call)
               ELSE [outcome |-> Return(<<>>), last_sources |-> <<>>]
    IN [outcome |-> execute_tool(tool_names(tm), tool_name, run.outcome),
        last_sources |-> IF ran
                         THEN [sources EXCEPT ![tool_name] = run.last_sources]
                         ELSE sources,
        ran |-> ran,
        emitted |-> ran /\ Len(tool_run(tool_name, <<>>, call).last_sources) > 0]

\* ----------------------------------------------------- the environment
\* exceptions a tool's execute can end with (raised by the store)
ToolErrors == {"Tool execution failed"}

\* the matches store.search can find: of a lesson with a link in the
\* catalog, of a lesson without one, without lesson number, without title
Match(title, lesson) ==
    [doc |-> "chunk text", course_title |-> title, lesson_number |-> lesson]
Matches ==
    {Match(Some("Course A"), Some(1)), Match(Some("Course A"), Some(0)),
     Match(Some("Course A"), None), Match(None, Some(1))}

\* SearchResults of store.search: an error, no match, or up to MaxMatches
SearchResults ==
    {[error |-> Some("Search error: index unavailable"), matches |-> <<>>],
     [error |-> None, matches |-> <<>>]}
    \cup UNION {{[error |-> None, matches |-> m] : m \in [1..k -> Matches]}
               : k \in 1..MaxMatches}

\* the optional keyword arguments of a content search
SearchFilters ==
    {[course_name |-> c, lesson_number |-> n] :
        c \in {None, Some("Course A")}, n \in {None, Some(0), Some(1)}}

\* the executions of the content-search tool: any filters for a search
\* without match, no filter otherwise
SearchCalls ==
    {[kind |-> "search", course_name |-> f.course_name,
      lesson_number |-> f.lesson_number,
      search |-> Return([error |-> None, matches |-> <<>>])] : f \in SearchFilters}
    \cup {[kind |-> "search", course_name |-> None, lesson_number |-> None,
           search |-> Return(r)] : r \in SearchResults}
    \cup {[kind |-> "search", course_name |-> None, lesson_number |-> None,
           search |-> Raise(e)] : e \in ToolErrors}

\* the lesson lists a course's lessons_json can hold
Lesson(n, title) == [lesson_number |-> Some(n), lesson_title |-> Some(title)]
LessonLists == {<<>>, <<Lesson(2, "Second"), Lesson(1, "First")>>}

\* the first metadata entry course_catalog.get can come back with
CatalogEntries ==
    {None}
    \cup {Some([course_link |-> l, lessons_json |-> j]) :
            l \in {None, Some("https://example.com/course")},
            j \in {None, Some([valid |-> FALSE, lessons |-> <<>>])}
                  \cup {Some([valid |-> TRUE, lessons |-> ll]) : ll \in LessonLists}}

\* the executions of the outline tool: the name does not resolve, the
\* resolution or the catalog raises, or the catalog answers
OutlineCalls ==
    {[kind |-> "outline", course_name |-> "Course", resolve |-> r,
      catalog |-> Return(None)] :
        r \in {Return(None)} \cup {Raise(e) : e \in ToolErrors}}
    \cup {[kind |-> "outline", course_name |-> "Course",
           resolve |-> Return(Some("Course A")), catalog |-> c] :
            c \in {Raise(e) : e \in ToolErrors}
                  \cup {Return(m) : m \in CatalogEntries}}

\* the lesson lists of up to MaxLessons lessons, in any order of their
\* numbers, with equal numbers and with lessons without number; the title
\* tells the place a lesson has in the list
LessonNumbers == {None, Some(1), Some(2)}
PlacedLesson(n, i) ==
    [lesson_number |-> n, lesson_title |-> Some("Lesson at " \o ToString(i))]
OutlineLessonLists ==
    UNION {{[i \in 1..k |-> PlacedLesson(ns[i], i)] : ns \in [1..k -> LessonNumbers]}
           : k \in 0..MaxLessons}

\* the executions of the outline tool on its own: as OutlineCalls, with the
\* lesson lists of OutlineLessonLists
OutlineInputs ==
    {c \in OutlineCalls : c.catalog.kind = "raise" \/ c.catalog.value = None
                             \/ c.catalog.value[1].lessons_json = None
                             \/ ~c.catalog.value[1].lessons_json[1].valid}
    \cup {[kind |-> "outline", course_name |-> "Course",
           resolve |-> Return(Some("Course A")),
           catalog |-> Return(Some([course_link |-> l,
                          lessons_json |-> Some([valid |-> TRUE, lessons |-> ll])]))] :
            l \in {None, Some("https://example.com/course")},
            ll \in OutlineLessonLists}

\* the call of a name that is not registered: no tool sees it
NoCall == [kind |-> "none"]

\* the executions a dispatch by name can run into
ToolCalls(tool_name) ==
    IF tool_name = "search_course_content" THEN SearchCalls
    ELSE IF tool_name = "get_course_outline" THEN OutlineCalls
         ELSE {NoCall}

\* the executions met inside generate_response: the search finds one match,
\* finds none, or the store raises
FoundOne == [error |-> None, matches |-> <<Match(Some("Course A"), Some(1))>>]
DispatchCalls(tool_name) ==
    IF tool_name = "search_course_content"
    THEN {c \in SearchCalls :
             /\ c.course_name = None /\ c.lesson_number = None
             /\ \/ c.search.kind = "raise"
                \/ c.search.value \in {FoundOne, [error |-> None, matches |-> <<>>]}}
    ELSE ToolCalls(tool_name)

\* the names a caller can dispatch
DispatchNames == {"search_course_content", "get_course_outline", "unknown_tool"}

\* tool names the model may ask for: a registered one and an unregistered one
RequestedNames == {"search_course_content", "unknown_tool"}

ProviderErrors == {"Mock API error"}

TextBlock(n) ==
    [type |-> "text", text |-> "text" \o ToString(n), name |-> "", id |-> ""]
ToolUseBlock(tool_name, n, i) ==
    [type |-> "tool_use", text |-> "", name |-> tool_name,
     id |-> "toolu_" \o ToString(n) \o "_" \o ToString(i)]

BlockKinds == {"text"} \cup RequestedNames
MkBlock(kind, n, i) ==
    IF kind = "text" THEN TextBlock(n) ELSE ToolUseBlock(kind, n, i)

\* the content lists the n-th completion call can come back with
Contents(n) ==
    UNION {{[i \in 1..k |-> MkBlock(shape[i], n, i)] : shape \in [1..k -> BlockKinds]}
           : k \in 0..MaxBlocks}

\* the content lists made of text blocks only
TextContents(n) == {c \in Contents(n) : \A i \in 1..Len(c) : c[i].type = "text"}

\* what the n-th client.messages.create call can do: raise a provider error
\* or return a response. A request that offered tools can come back with
\* any stop reason and any content list; a request without tools cannot
\* come back with a tool invocation
ApiOutcomes(n, params) ==
    {Raise(e) : e \in ProviderErrors}
    \cup {Return([stop_reason |-> "end_turn", content |-> c]) : c \in TextContents(n)}
    \cup IF params.tools # None
         THEN {Return([stop_reason |-> sr, content |-> c]) :
                  sr \in {"end_turn", "tool_use"}, c \in Contents(n)}
         ELSE {}

\* the arguments generate_response can be called with
Queries == {"", "What is Python?"}
Histories == {None, Some("User: hi")}
ToolLists == {None, Some(<<>>), Some(tool_definitions)}
Managers == {None, Some("ToolManager")}

\* ----------------------------------------------- the /api/query endpoint
\* "marker in error_msg" for a message that is a sequence of tokens
Contains(error_msg, marker) ==
    \E i \in 1..Len(error_msg) : error_msg[i] = marker

\* mutant: the invalid-request test comes before the credit test
http_error_request_first(error_msg) ==
    IF Contains(error_msg, "invalid_request_error")
    THEN [status_code |-> 400, detail |-> <<"API request error: ">> \o error_msg]
    ELSE IF Contains(error_msg, "credit balance is too low")
    THEN [status_code |-> 402,
          detail |-> <<"Anthropic API credit balance too low. Please add credits to your account.">>]
    ELSE [status_code |-> 500, detail |-> error_msg]

\* the HTTPException the except clause raises for str(e) (app.py 97-114)
http_error(error_msg) ==
    IF Contains(error_msg, "credit balance is too low")
    THEN [status_code |-> 402,
          detail |-> <<"Anthropic API credit balance too low. Please add credits to your account.">>]
    ELSE IF Contains(error_msg, "invalid_request_error")
    THEN [status_code |-> 400, detail |-> <<"API request error: ">> \o error_msg]
    ELSE [status_code |-> 500, detail |-> error_msg]

\* the session id the handler works with (app.py 87-90): the request's when
\* it is truthy, otherwise the one create_session() returns
handler_session_id(request_session_id, created_id) ==
    IF TruthyStr(request_session_id) THEN request_session_id[1] ELSE created_id

\* query_documents: what the endpoint answers when create_session() would
\* return created_id and rag_system.query does query_outcome
query_documents(request, created_id, query_outcome) ==
    LET session_id == handler_session_id(request.session_id, created_id) IN
    [session_created |-> ~TruthyStr(request.session_id),
     session_used |-> session_id,
     response |->
        IF query_outcome.kind = "return"
        THEN [status_code |-> 200,
              body |-> [answer |-> query_outcome.value.answer,
                        sources |-> query_outcome.value.sources,
                        session_id |-> session_id]]
        ELSE http_error(query_outcome.value)]

\* the requests: a query, and a session id that is absent, empty or given
Requests ==
    {[query |-> q, session_id |-> sid] :
        q \in {"", "What is Python?"},
        sid \in {None, Some(""), Some("session_1")}}

\* the messages of the exceptions rag_system.query can end with: with each
\* of the two markers, with both in either order, with neither
QueryErrors ==
    {<<"Mock API error">>,
     <<"Error code: 400 - ", "credit balance is too low">>,
     <<"Error code: 400 - ", "invalid_request_error", ": bad request">>,
     <<"invalid_request_error", ": Your ", "credit balance is too low">>,
     <<"credit balance is too low", " (", "invalid_request_error", ")">>}

\* what rag_system.query(query, session_id) does: it returns an answer with
\* its sources, or raises
QueryOutcomes ==
    {Return([answer |-> a, sources |-> src]) :
        a \in {<<"">>, <<"Python is a language.">>},
        src \in {<<>>,
                 <<[text |-> <<"Course A">>, link |-> None]>>,
                 <<[text |-> <<"Course A", " - Lesson ", "1">>,
                    link |-> Some("https://example.com/Course A/lesson1")]>>}}
    \cup {[kind |-> "raise", value |-> e] : e \in QueryErrors}

\* ------------------------------------------------------------------ state
VARIABLES
    pc,                   \* position of the generate_response invocation
    query,                \* argument query
    conversation_history, \* argument conversation_history
    tools,                \* argument tools
    tool_manager,         \* argument tool_manager
    current_round,        \* state.current_round
    messages,             \* state.messages
    tools_executed,       \* state.tools_executed
    response,             \* the response whose tool blocks are being run
    block_idx,            \* position of the for loop over response.content
    tool_results,         \* local tool_results of _execute_round_tools
    calls,                \* every client.messages.create request, in order
    responses,            \* the outcome of each of those requests
    dispatches,           \* every tool_manager.execute_tool call, in order
    result,               \* what generate_response returned (or raised)
    tm_tools,             \* ToolManager.tools: the keys in insertion order
    last_sources,         \* last_sources of each tool object, by tool name
    tm_op,                \* the last operation a caller ran on the ToolManager
    queries,              \* number of generate_response invocations so far
    sources_at_start,     \* last_sources when the current invocation began
    sources_read,         \* what the caller's get_last_sources() returned
    last_emitter,         \* the tool whose execution last assigned a batch,
                          \* kept by the tracked executions of SpecR
    qs,                   \* the position of each of two concurrent queries
    producer,             \* per tool, the query whose execution made its batch
    overlapped,           \* a query took a step while the other was under way
    api,                  \* the /api/query request being handled
    inv,                  \* the position and query of each of two invocations
    round_states          \* the ToolCallState objects of those invocations

vars == <<pc, query, conversation_history, tools, tool_manager, current_round,
          messages, tools_executed, response, block_idx, tool_results,
          calls, responses, dispatches, result, tm_tools, last_sources, tm_op,
          queries, sources_at_start, sources_read, last_emitter, qs, producer,
          overlapped, api, inv, round_states>>

args == <<query, conversation_history, tools, tool_manager>>
roundState == <<current_round, messages, tools_executed>>
toolLoop == <<response, block_idx, tool_results>>

NoResponse == [stop_reason |-> "", content |-> <<>>]
NoResult == [kind |-> "none", value |-> <<>>]
generateState == <<pc, args, roundState, toolLoop, calls, responses, dispatches,
                   result>>
managerState == <<tm_tools, tm_op>>
callerState == <<queries, sources_at_start>>
concState == <<qs, producer, overlapped>>
invState == <<inv, round_states>>
auxState == <<sources_read, last_emitter, concState, api, invState>>

\* no ToolManager operation was run yet
NoOp == [op |-> "none", name |-> "", call |-> NoCall, outcome |-> NoResult,
         ran |-> FALSE, held |-> {}]

\* the tool objects are built with last_sources = [] (lines 25, 132)
NoSources == [n \in registered_tools |-> <<>>]

\* the two queries of a concurrent run
QueryIds == {1, 2}

\* a query that has not begun: own tells whether one of its tool executions
\* assigned a batch, read is what its get_last_sources() returned and
\* read_from the query whose execution made that batch (0: nobody's)
QIdle == [pc |-> "idle", dispatched |-> 0, own |-> FALSE, read |-> <<>>,
          read_from |-> 0]

\* the two generate_response invocations on one AIGenerator
InvocationIds == {1, 2}

\* an invocation that has not been called
InvIdle == [pc |-> "idle", query |-> ""]

\* a ToolCallState as the dataclass builds it (lines 15-21)
ToolCallState(msgs) ==
    [current_round |-> 0, messages |-> msgs, tools_executed |-> <<>>]

\* no request reached the /api/query endpoint
NoRequest == [stage |-> "none"]

\* no tool execution assigned a batch since the tools were built or reset
NoEmitter == [name |-> "", batch |-> <<>>]

\* nothing was read, emitted, interleaved or requested yet
AuxIdle ==
    /\ sources_read = None
    /\ last_emitter = NoEmitter
    /\ qs = [i \in QueryIds |-> QIdle]
    /\ producer = [n \in registered_tools |-> 0]
    /\ overlapped = FALSE
    /\ api = NoRequest
    /\ inv = [i \in InvocationIds |-> InvIdle]
    /\ round_states = [i \in InvocationIds |-> ToolCallState(<<>>)]

\* no generate_response invocation is running
GenerateIdle ==
    /\ pc = "idle"
    /\ query = ""
    /\ conversation_history = None
    /\ tools = None
    /\ tool_manager = None
    /\ current_round = 0
    /\ messages = <<>>
    /\ tools_executed = <<>>
    /\ response = NoResponse
    /\ block_idx = 0
    /\ tool_results = <<>>
    /\ calls = <<>>
    /\ responses = <<>>
    /\ dispatches = <<>>
    /\ result = NoResult

\* the application as a query finds it: both tools registered, in the order
\* of app_tools
Init ==
    /\ GenerateIdle
    /\ tm_tools = app_tools
    /\ last_sources = NoSources
    /\ tm_op = NoOp
    /\ queries = 0
    /\ sources_at_start = NoSources
    /\ AuxIdle

\* mutant: the loop goes on after what should have ended the invocation
Leave_retry(o) ==
    /\ pc' = "loop"
    /\ result' = o

\* leave generate_response with outcome o: a returned string or an exception
\* that reached the caller
Leave(o) ==
    /\ pc' = IF o.kind = "return" THEN "done" ELSE "raised"
    /\ result' = o

\* generate_response is entered with arguments q, h, t, m: ToolCallState is
\* built (lines 105-116)
Enter(q, h, t, m) ==
    /\ pc = "idle"
    /\ query' = q
    /\ conversation_history' = h
    /\ tools' = t
    /\ tool_manager' = m
    /\ messages' = <<[role |-> "user", content |-> q]>>
    /\ current_round' = 0
    /\ tools_executed' = <<>>
    /\ pc' = "loop"
    /\ queries' = queries + 1
    /\ sources_at_start' = last_sources
    /\ UNCHANGED <<toolLoop, calls, responses, dispatches, result>>
    /\ UNCHANGED <<managerState, last_sources>>
    /\ UNCHANGED auxState

\* generate_response is called with any arguments
Start ==
    \E q \in Queries, h \in Histories, t \in ToolLists, m \in Managers :
        Enter(q, h, t, m)

\* one pass of the while loop up to the request (lines 119-139)
RoundCall ==
    /\ pc = "loop"
    /\ ~is_complete(current_round, max_rounds)
    /\ current_round' = current_round + 1
    /\ calls' = Append(calls,
          [final |-> FALSE, round |-> current_round + 1,
           params |-> round_api_params(messages,
                         get_round_system_prompt(
                             system_content(conversation_history),
                             current_round + 1),
                         tools, current_round + 1, max_rounds)])
    /\ pc' = "await"
    /\ UNCHANGED <<args, messages, tools_executed, toolLoop, responses,
                   dispatches, result>>
    /\ UNCHANGED <<managerState, last_sources, callerState>>
    /\ UNCHANGED auxState

\* the request of a round comes back (lines 139-159)
RoundResponse ==
    /\ pc = "await"
    /\ \E o \in ApiOutcomes(Len(calls), calls[Len(calls)].params) :
          /\ responses' = Append(responses, o)
          /\ IF o.kind = "raise"
             THEN /\ Leave(round_except(o))
                  /\ UNCHANGED <<messages, toolLoop>>
             ELSE /\ messages' = Append(messages,
                         [role |-> "assistant", content |-> o.value.content])
                  /\ IF UsesTools(o.value, tool_manager)
                     THEN /\ pc' = "tools"
                          /\ response' = o.value
                          /\ block_idx' = NextToolUse(o.value.content, 1)
                          /\ tool_results' = <<>>
                          /\ UNCHANGED result
                     ELSE /\ Leave(round_except(FirstText(o.value.content)))
                          /\ UNCHANGED toolLoop
    /\ UNCHANGED <<args, current_round, tools_executed, calls, dispatches>>
    /\ UNCHANGED <<managerState, last_sources, callerState>>
    /\ UNCHANGED auxState

\* _execute_round_tools handles the next tool_use block (lines 210-250);
\* call_sets[name] are the executions the tool of that name can run into
DispatchWith(call_sets) ==
    /\ pc = "tools"
    /\ block_idx <= Len(response.content)
    /\ LET block == response.content[block_idx] IN
       \E call \in call_sets[block.name] :
          LET eff == execute_tool_effect(tm_tools, last_sources, block.name, call)
              o == eff.outcome IN
          /\ last_sources' = eff.last_sources
          /\ dispatches' = Append(dispatches,
                [round |-> current_round, name |-> block.name,
                 id |-> block.id, call |-> call, outcome |-> o])
          /\ IF o.kind = "return"
             THEN /\ tools_executed' =
                        add_tool_execution(tools_executed, current_round, block.name)
                  /\ tool_results' =
                        Append(tool_results, tool_result_block(block, o.value))
                  /\ block_idx' = NextToolUse(response.content, block_idx + 1)
                  /\ UNCHANGED <<pc, result, messages>>
             ELSE /\ tool_results' = Append(tool_results,
                        tool_error_block(block, tool_error_msg(block.name, o.value)))
                  /\ messages' = tool_failure_messages(messages, tool_results')
                  /\ Leave(tool_except(block.name, o))
                  /\ UNCHANGED <<tools_executed, block_idx>>
    /\ UNCHANGED <<args, current_round, response, calls, responses>>
    /\ UNCHANGED <<managerState, callerState>>
    /\ UNCHANGED auxState

DispatchTool == DispatchWith([n \in DispatchNames |-> DispatchCalls(n)])

\* the for loop is over: results are appended and the while loop goes on
\* (lines 252-256, 150, 119)
EndRoundTools ==
    /\ pc = "tools"
    /\ block_idx > Len(response.content)
    /\ messages' = append_tool_results(messages, tool_results)
    /\ response' = NoResponse
    /\ block_idx' = 0
    /\ tool_results' = <<>>
    /\ pc' = "loop"
    /\ UNCHANGED <<args, current_round, tools_executed, calls, responses,
                   dispatches, result>>
    /\ UNCHANGED <<managerState, last_sources, callerState>>
    /\ UNCHANGED auxState

\* the loop ended on the round bound: the request without tools (161-171)
FinalCall ==
    /\ pc = "loop"
    /\ is_complete(current_round, max_rounds)
    /\ calls' = Append(calls,
          [final |-> TRUE, round |-> current_round,
           params |-> final_params(messages,
                         final_system_content(
                             system_content(conversation_history)))])
    /\ pc' = "await_final"
    /\ UNCHANGED <<args, roundState, toolLoop, responses, dispatches, result>>
    /\ UNCHANGED <<managerState, last_sources, callerState>>
    /\ UNCHANGED auxState

\* the final request comes back (lines 170-174)
FinalResponse ==
    /\ pc = "await_final"
    /\ \E o \in ApiOutcomes(Len(calls), calls[Len(calls)].params) :
          /\ responses' = Append(responses, o)
          /\ Leave(final_except(IF o.kind = "raise" THEN o
                                ELSE FirstText(o.value.content)))
    /\ UNCHANGED <<args, roundState, toolLoop, calls, dispatches>>
    /\ UNCHANGED <<managerState, last_sources, callerState>>
    /\ UNCHANGED auxState

Next ==
    \/ Start
    \/ RoundCall
    \/ RoundResponse
    \/ DispatchTool
    \/ EndRoundTools
    \/ FinalCall
    \/ FinalResponse

Spec == Init /\ [][Next]_vars

\* one thread runs generate_response from start to end, and every call it
\* makes (completion API, tool) comes back: each enabled step is taken
FairSpec == Spec /\ WF_vars(Next)

\* ------------------------ generate_response over a store that reports errors
\* the executions met when the store is in trouble: the search comes back
\* with an error string, or finds one match
SearchError == [error |-> Some("Search error: index unavailable"), matches |-> <<>>]
ErrorCalls(tool_name) ==
    IF tool_name = "search_course_content"
    THEN {c \in SearchCalls :
             /\ c.course_name = None /\ c.lesson_number = None
             /\ c.search.kind = "return"
             /\ c.search.value \in {SearchError, FoundOne}}
    ELSE ToolCalls(tool_name)

DispatchOverErrors == DispatchWith([n \in DispatchNames |-> ErrorCalls(n)])

NextE ==
    \/ Start
    \/ RoundCall
    \/ RoundResponse
    \/ DispatchOverErrors
    \/ EndRoundTools
    \/ FinalCall
    \/ FinalResponse

SpecE == Init /\ [][NextE]_vars

\* --------------------------------------- the ToolManager used by a caller
\* a ToolManager is built empty (line 215) next to the tool objects
InitTM ==
    /\ GenerateIdle
    /\ tm_tools = <<>>
    /\ last_sources = NoSources
    /\ tm_op = NoOp
    /\ queries = 0
    /\ sources_at_start = NoSources
    /\ AuxIdle

\* tool_manager.register_tool(tool)
RegisterTool ==
    /\ pc = "idle"
    /\ \E t \in ToolObjects :
          /\ tm_tools' = register_tool(tm_tools, get_tool_definition(t))
          /\ tm_op' = [op |-> "register_tool", name |-> t, call |-> NoCall,
                       outcome |-> register_outcome(get_tool_definition(t)),
                       ran |-> FALSE, held |-> {}]
    /\ UNCHANGED <<generateState, callerState, last_sources>>
    /\ UNCHANGED auxState

\* tool_manager.get_tool_definitions()
GetToolDefinitions ==
    /\ pc = "idle"
    /\ tm_op' = [op |-> "get_tool_definitions", name |-> "", call |-> NoCall,
                 outcome |-> Return(get_tool_definitions(tm_tools)),
                 ran |-> FALSE, held |-> {}]
    /\ UNCHANGED <<generateState, callerState, tm_tools, last_sources>>
    /\ UNCHANGED auxState

\* tool_manager.execute_tool(name, **kwargs)
ExecuteTool ==
    /\ pc = "idle"
    /\ \E n \in DispatchNames : \E call \in ToolCalls(n) :
          LET eff == execute_tool_effect(tm_tools, last_sources, n, call) IN
          /\ last_sources' = eff.last_sources
          /\ tm_op' = [op |-> "execute_tool", name |-> n, call |-> call,
                       outcome |-> eff.outcome, ran |-> eff.ran, held |-> {}]
    /\ UNCHANGED <<generateState, callerState, tm_tools>>
    /\ UNCHANGED auxState

\* tool_manager.get_last_sources()
GetLastSources ==
    /\ pc = "idle"
    /\ tm_op' = [op |-> "get_last_sources", name |-> "", call |-> NoCall,
                 outcome |-> Return(get_last_sources(tm_tools, last_sources)),
                 ran |-> FALSE, held |-> {}]
    /\ UNCHANGED <<generateState, callerState, tm_tools, last_sources>>
    /\ UNCHANGED auxState

\* tool_manager.reset_sources(); held notes the registered tools whose
\* last_sources was not empty when it was called
ResetSources ==
    /\ pc = "idle"
    /\ last_sources' = reset_sources(tm_tools, last_sources)
    /\ tm_op' = [op |-> "reset_sources", name |-> "", call |-> NoCall,
                 outcome |-> Return(None), ran |-> FALSE,
                 held |-> {n \in tool_names(tm_tools) : Len(last_sources[n]) > 0}]
    /\ UNCHANGED <<generateState, callerState, tm_tools>>
    /\ UNCHANGED auxState

NextTM ==
    \/ RegisterTool
    \/ ExecuteTool
    \/ GetLastSources
    \/ ResetSources

SpecTM == InitTM /\ [][NextTM]_vars

\* ------------------- registrations and executions on one ToolManager
\* tool_manager.execute_tool(name, **kwargs), with a note of the execution
\* that assigned a batch last
ExecuteTracked ==
    /\ pc = "idle"
    /\ \E n \in DispatchNames : \E call \in DispatchCalls(n) :
          LET eff == execute_tool_effect(tm_tools, last_sources, n, call) IN
          /\ last_sources' = eff.last_sources
          /\ last_emitter' = IF eff.emitted
                             THEN [name |-> n, batch |-> eff.last_sources[n]]
                             ELSE last_emitter
          /\ tm_op' = [op |-> "execute_tool", name |-> n, call |-> call,
                       outcome |-> eff.outcome, ran |-> eff.ran, held |-> {}]
    /\ UNCHANGED <<generateState, callerState, tm_tools>>
    /\ UNCHANGED <<sources_read, concState, api>>
    /\ UNCHANGED invState

\* a manager is filled and used without a reset: tools are registered, the
\* schemas listed, tools executed and the sources read, in any order
NextR ==
    \/ RegisterTool
    \/ GetToolDefinitions
    \/ ExecuteTracked
    \/ GetLastSources

SpecR == InitTM /\ [][NextR]_vars

\* ------------------------------------- queries one after the other
\* a caller that holds the ToolManager runs a query the way the tests do:
\* generate_response(query, tools=tool_manager.get_tool_definitions(),
\* tool_manager=tool_manager)
StartQuery ==
    \E q \in Queries :
        Enter(q, None, Some(get_tool_definitions(tm_tools)), Some("ToolManager"))

\* the caller runs tool_manager.reset_sources() between two queries
ResetBetweenQueries ==
    /\ pc = "idle"
    /\ queries > 0
    /\ last_sources' = reset_sources(tm_tools, last_sources)
    /\ UNCHANGED <<generateState, managerState, callerState>>
    /\ UNCHANGED auxState

\* generate_response has returned; its locals are gone and the caller is
\* free to run another query on the same ToolManager
NextQuery ==
    /\ pc \in {"done", "raised"}
    /\ queries < MaxQueries
    /\ pc' = "idle"
    /\ query' = ""
    /\ conversation_history' = None
    /\ tools' = None
    /\ tool_manager' = None
    /\ current_round' = 0
    /\ messages' = <<>>
    /\ tools_executed' = <<>>
    /\ response' = NoResponse
    /\ block_idx' = 0
    /\ tool_results' = <<>>
    /\ calls' = <<>>
    /\ responses' = <<>>
    /\ dispatches' = <<>>
    /\ result' = NoResult
    /\ UNCHANGED <<managerState, last_sources, callerState>>
    /\ UNCHANGED auxState

NextQ ==
    \/ StartQuery
    \/ RoundCall
    \/ RoundResponse
    \/ DispatchTool
    \/ EndRoundTools
    \/ FinalCall
    \/ FinalResponse
    \/ NextQuery
    \/ ResetBetweenQueries

SpecQ == Init /\ [][NextQ]_vars

\* ------------------------------------- the outline tool on its own
\* an outline tool, with or without a batch from an earlier execution, is
\* about to be executed with some course name against some catalog
StaleOutline == outline_sources("Course B", None)
InitO ==
    /\ GenerateIdle
    /\ tm_tools = app_tools
    /\ last_sources \in {NoSources,
                          [NoSources EXCEPT !["get_course_outline"] = StaleOutline]}
    /\ tm_op \in {[NoOp EXCEPT !.op = "call", !.name = "get_course_outline",
                               !.call = c] : c \in OutlineInputs}
    /\ queries = 0
    /\ sources_at_start = NoSources
    /\ AuxIdle

\* outline_tool.execute(course_name=...)
OutlineExecute ==
    /\ tm_op.op = "call"
    /\ LET run == CourseOutlineTool_execute(last_sources["get_course_outline"],
                      tm_op.call.course_name, tm_op.call.resolve,
                      tm_op.call.catalog)
       IN /\ tm_op' = [tm_op EXCEPT !.op = "execute", !.outcome = run.outcome,
                                    !.ran = TRUE]
          /\ last_sources' =
                [last_sources EXCEPT !["get_course_outline"] = run.last_sources]
    /\ UNCHANGED <<generateState, callerState, tm_tools>>
    /\ UNCHANGED auxState

NextO == OutlineExecute

SpecO == InitO /\ [][NextO]_vars

\* ------------------------------------------ one request to /api/query
\* a request has arrived; created_id is the id create_session() would
\* return, query_outcome what rag_system.query is going to do
InitA ==
    /\ GenerateIdle
    /\ tm_tools = app_tools
    /\ last_sources = NoSources
    /\ tm_op = NoOp
    /\ queries = 0
    /\ sources_at_start = NoSources
    /\ sources_read = None
    /\ last_emitter = NoEmitter
    /\ qs = [i \in QueryIds |-> QIdle]
    /\ producer = [n \in registered_tools |-> 0]
    /\ overlapped = FALSE
    /\ inv = [i \in InvocationIds |-> InvIdle]
    /\ round_states = [i \in InvocationIds |-> ToolCallState(<<>>)]
    /\ api \in {[stage |-> "request", request |-> r, created_id |-> "session_2",
                  query_outcome |-> o] : r \in Requests, o \in QueryOutcomes}

\* the handler runs (app.py 83-114)
QueryDocuments ==
    /\ api.stage = "request"
    /\ LET done == query_documents(api.request, api.created_id, api.query_outcome)
       IN api' = [stage |-> "response", request |-> api.request,
                  created_id |-> api.created_id,
                  query_outcome |-> api.query_outcome,
                  session_created |-> done.session_created,
                  session_used |-> done.session_used,
                  response |-> done.response]
    /\ UNCHANGED <<generateState, managerState, callerState, last_sources>>
    /\ UNCHANGED <<sources_read, last_emitter, concState>>
    /\ UNCHANGED invState

NextA == QueryDocuments

SpecA == InitA /\ [][NextA]_vars

\* ------------------------------- serialized queries, each a whole unit
\* generate_response returned; the caller reads the sources of the answer:
\* sources = tool_manager.get_last_sources()
QueryRead ==
    /\ pc = "done"
    /\ sources_read' = Some(get_last_sources(tm_tools, last_sources))
    /\ pc' = "read"
    /\ UNCHANGED <<args, roundState, toolLoop, calls, responses, dispatches,
                   result>>
    /\ UNCHANGED <<managerState, last_sources, callerState>>
    /\ UNCHANGED <<last_emitter, concState, api>>
    /\ UNCHANGED invState

\* the caller ends the unit: tool_manager.reset_sources()
QueryReset ==
    /\ pc = "read"
    /\ last_sources' = reset_sources(tm_tools, last_sources)
    /\ pc' = "reset"
    /\ UNCHANGED <<args, roundState, toolLoop, calls, responses, dispatches,
                   result>>
    /\ UNCHANGED <<managerState, callerState>>
    /\ UNCHANGED auxState

\* the next query begins once the unit of the previous one is over
QueryNext ==
    /\ pc = "reset"
    /\ queries < MaxQueries
    /\ sources_read' = None
    /\ pc' = "idle"
    /\ query' = ""
    /\ conversation_history' = None
    /\ tools' = None
    /\ tool_manager' = None
    /\ current_round' = 0
    /\ messages' = <<>>
    /\ tools_executed' = <<>>
    /\ response' = NoResponse
    /\ block_idx' = 0
    /\ tool_results' = <<>>
    /\ calls' = <<>>
    /\ responses' = <<>>
    /\ dispatches' = <<>>
    /\ result' = NoResult
    /\ UNCHANGED <<managerState, last_sources, callerState>>
    /\ UNCHANGED <<last_emitter, concState, api>>
    /\ UNCHANGED invState

NextS ==
    \/ StartQuery
    \/ RoundCall
    \/ RoundResponse
    \/ DispatchTool
    \/ EndRoundTools
    \/ FinalCall
    \/ FinalResponse
    \/ QueryRead
    \/ QueryReset
    \/ QueryNext

SpecS == Init /\ [][NextS]_vars

\* --------------------------- two queries on one ToolManager, interleaved
\* the most tool executions one generate_response makes: max_rounds rounds
\* of at most MaxBlocks tool_use blocks
MaxDispatches == max_rounds * MaxBlocks

\* query i is between its start and its reset
UnderWay(i) == qs[i].pc \notin {"idle", "done"}

\* query i takes a step that leaves it as q
QStep(i, q) ==
    /\ qs' = [qs EXCEPT ![i] = q]
    /\ overlapped' = (overlapped \/ \E j \in QueryIds \ {i} : UnderWay(j))

\* a batch that was cleared has no producer any more
producer_after(prod, sources) ==
    [n \in DOMAIN prod |-> IF sources[n] = <<>> THEN 0 ELSE prod[n]]

\* query i calls generate_response
QStart(i) ==
    /\ qs[i].pc = "idle"
    /\ QStep(i, [qs[i] EXCEPT !.pc = "generate"])
    /\ UNCHANGED <<generateState, managerState, callerState, last_sources>>
    /\ UNCHANGED <<sources_read, last_emitter, producer, api>>
    /\ UNCHANGED invState

\* the generate_response of query i runs one tool_use block: the dispatch of
\* _execute_round_tools; a tool that raises ends generate_response
QDispatch(i) ==
    /\ qs[i].pc = "generate"
    /\ qs[i].dispatched < MaxDispatches
    /\ \E n \in RequestedNames : \E call \in DispatchCalls(n) :
          LET eff == execute_tool_effect(tm_tools, last_sources, n, call) IN
          /\ last_sources' = eff.last_sources
          /\ producer' = IF eff.emitted THEN [producer EXCEPT ![n] = i]
                         ELSE producer
          /\ QStep(i, [qs[i] EXCEPT
                          !.dispatched = @ + 1,
                          !.own = (@ \/ eff.emitted),
                          !.pc = IF eff.outcome.kind = "raise" THEN "generated"
                                 ELSE "generate"])
    /\ UNCHANGED <<generateState, managerState, callerState>>
    /\ UNCHANGED <<sources_read, last_emitter, api>>
    /\ UNCHANGED invState

\* the generate_response of query i returns its answer
QReturn(i) ==
    /\ qs[i].pc = "generate"
    /\ QStep(i, [qs[i] EXCEPT !.pc = "generated"])
    /\ UNCHANGED <<generateState, managerState, callerState, last_sources>>
    /\ UNCHANGED <<sources_read, last_emitter, producer, api>>
    /\ UNCHANGED invState

\* query i reads the sources: tool_manager.get_last_sources()
QRead(i) ==
    /\ qs[i].pc = "generated"
    /\ LET got == get_last_sources(tm_tools, last_sources)
           holders == {n \in tool_names(tm_tools) :
                          last_sources[n] # <<>> /\ last_sources[n] = got}
       IN QStep(i, [qs[i] EXCEPT
                       !.pc = "read",
                       !.read = got,
                       !.read_from = IF got = <<>> THEN 0
                                     ELSE producer[CHOOSE n \in holders : TRUE]])
    /\ UNCHANGED <<generateState, managerState, callerState, last_sources>>
    /\ UNCHANGED <<sources_read, last_emitter, producer, api>>
    /\ UNCHANGED invState

\* query i resets the sources: tool_manager.reset_sources()
QReset(i) ==
    /\ qs[i].pc = "read"
    /\ last_sources' = reset_sources(tm_tools, last_sources)
    /\ producer' = producer_after(producer, last_sources')
    /\ QStep(i, [qs[i] EXCEPT !.pc = "done"])
    /\ UNCHANGED <<generateState, managerState, callerState>>
    /\ UNCHANGED <<sources_read, last_emitter, api>>
    /\ UNCHANGED invState

NextC ==
    \E i \in QueryIds :
        \/ QStart(i)
        \/ QDispatch(i)
        \/ QReturn(i)
        \/ QRead(i)
        \/ QReset(i)

SpecC == Init /\ [][NextC]_vars

\* ------------------------- two invocations on one AIGenerator, interleaved
\* mutant: the ToolCallState is kept on the AIGenerator (self.state), one
\* object for every invocation
state_of_shared(i) == 1

\* "state = ToolCallState(...)" (line 105): the object is a local of the
\* invocation, so invocation i works on an object of its own
state_of(i) == i

\* what a completion call of round n comes back with here: a provider
\* error, a text, or one request for the search tool
InvOutcomes(n) ==
    {Raise(e) : e \in ProviderErrors}
    \cup {Return([stop_reason |-> "end_turn", content |-> <<TextBlock(n)>>]),
          Return([stop_reason |-> "tool_use",
                  content |-> <<ToolUseBlock("search_course_content", n, 1)>>])}

\* invocation i moves to position p
InvStep(i, p) == inv' = [inv EXCEPT ![i].pc = p]

\* invocation i is called with a query: lines 105-109
InvStart(i) ==
    /\ inv[i].pc = "idle"
    /\ \E q \in Queries :
          /\ inv' = [inv EXCEPT ![i] = [pc |-> "loop", query |-> q]]
          /\ round_states' = [round_states EXCEPT ![state_of(i)] =
                ToolCallState(<<[role |-> "user", content |-> q]>>)]
    /\ UNCHANGED <<generateState, managerState, callerState, last_sources>>
    /\ UNCHANGED <<sources_read, last_emitter, concState, api>>

\* invocation i starts a round and sends its request (lines 119-139)
InvRoundCall(i) ==
    /\ inv[i].pc = "loop"
    /\ ~is_complete(round_states[state_of(i)].current_round, max_rounds)
    /\ round_states' = [round_states EXCEPT ![state_of(i)].current_round = @ + 1]
    /\ InvStep(i, "await")
    /\ UNCHANGED <<generateState, managerState, callerState, last_sources>>
    /\ UNCHANGED <<sources_read, last_emitter, concState, api>>

\* the request of invocation i comes back (lines 139-159)
InvRoundResponse(i) ==
    /\ inv[i].pc = "await"
    /\ \E o \in InvOutcomes(round_states[state_of(i)].current_round) :
          IF o.kind = "raise"
          THEN /\ InvStep(i, "done")
               /\ UNCHANGED round_states
          ELSE /\ round_states' = [round_states EXCEPT ![state_of(i)].messages =
                      Append(@, [role |-> "assistant", content |-> o.value.content])]
               /\ InvStep(i, IF UsesTools(o.value, Some("ToolManager"))
                             THEN "tools" ELSE "done")
    /\ UNCHANGED <<generateState, managerState, callerState, last_sources>>
    /\ UNCHANGED <<sources_read, last_emitter, concState, api>>

\* invocation i runs the tool its last response asked for and, when the tool
\* returned, logs it and appends the result (lines 210-256)
InvDispatch(i) ==
    /\ inv[i].pc = "tools"
    /\ LET st == round_states[state_of(i)]
           block == st.messages[Len(st.messages)].content[1]
       IN \E call \in DispatchCalls(block.name) :
            LET eff == execute_tool_effect(tm_tools, last_sources, block.name, call)
            IN /\ last_sources' = eff.last_sources
               /\ IF eff.outcome.kind = "return"
                  THEN /\ round_states' = [round_states EXCEPT ![state_of(i)] =
                             [current_round |-> st.current_round,
                              messages |-> append_tool_results(st.messages,
                                  <<tool_result_block(block, eff.outcome.value)>>),
                              tools_executed |-> add_tool_execution(
                                  st.tools_executed, st.current_round, block.name)]]
                       /\ InvStep(i, "loop")
                  ELSE /\ UNCHANGED round_states
                       /\ InvStep(i, "done")
    /\ UNCHANGED <<generateState, managerState, callerState>>
    /\ UNCHANGED <<sources_read, last_emitter, concState, api>>

\* the round bound is reached: invocation i makes the final call and returns
\* (lines 161-174)
InvFinal(i) ==
    /\ inv[i].pc = "loop"
    /\ is_complete(round_states[state_of(i)].current_round, max_rounds)
    /\ InvStep(i, "done")
    /\ UNCHANGED round_states
    /\ UNCHANGED <<generateState, managerState, callerState, last_sources>>
    /\ UNCHANGED <<sources_read, last_emitter, concState, api>>

NextI ==
    \E i \in InvocationIds :
        \/ InvStart(i)
        \/ InvRoundCall(i)
        \/ InvRoundResponse(i)
        \/ InvDispatch(i)
        \/ InvFinal(i)

SpecI == Init /\ [][NextI]_vars

TypeOK ==
    /\ pc \in {"idle", "loop", "await", "tools", "await_final", "done", "raised",
              "read", "reset"}
    /\ current_round \in 0..(max_rounds + 1)
    /\ Len(calls) <= max_rounds + 2

\* ------------------------------------------------ reading the history
\* the tool_use blocks of a content list, in order
ToolUses(content) == SelectSeq(content, LAMBDA b : b.type = "tool_use")

\* outcome o is a response that is a direct text completion
DirectText(o) ==
    /\ o.kind = "return"
    /\ o.value.stop_reason # "tool_use"
    /\ Len(o.value.content) > 0
    /\ \A i \in 1..Len(o.value.content) : o.value.content[i].type = "text"

\* outcome o is a response that asks for at least one tool invocation
RequestsTools(o) ==
    /\ o.kind = "return"
    /\ o.value.stop_reason = "tool_use"
    /\ Len(ToolUses(o.value.content)) > 0

\* outcome o is a response whose first block holds text
HasText(o) ==
    /\ o.kind = "return"
    /\ Len(o.value.content) > 0
    /\ o.value.content[1].type = "text"

TextOf(o) == o.value.content[1].text

Tokens(text) == {text[i] : i \in 1..Len(text)}

Terminated == pc \in {"done", "raised"}

\* the dispatches made in round r, in order
DispatchesOf(r) == SelectSeq(dispatches, LAMBDA d : d.round = r)

\* the first n tool_use blocks of the r-th response were dispatched, in order
DispatchedPrefix(r, n) ==
    /\ Len(DispatchesOf(r)) = n
    /\ n <= Len(ToolUses(responses[r].value.content))
    /\ \A i \in 1..n :
          /\ DispatchesOf(r)[i].id = ToolUses(responses[r].value.content)[i].id
          /\ DispatchesOf(r)[i].name = ToolUses(responses[r].value.content)[i].name

\* every tool_use block of the r-th response was dispatched once, in order
DispatchedAll(r) ==
    DispatchedPrefix(r, Len(ToolUses(responses[r].value.content)))

\* the tool_result blocks that msgs holds (the first message is the query)
ResultIds(msgs) ==
    UNION {{msgs[i].content[j].tool_use_id : j \in 1..Len(msgs[i].content)}
           : i \in {k \in 2..Len(msgs) : msgs[k].role = "user"}}

\* ---------------------------------------------------------------- claims

\* C1: for r in {1, 2}, if the r-th completion response is a direct text
\* completion (no tool invocation requested), generate_response has returned
\* exactly that response's text, exactly r completion calls were made, and
\* no tool was dispatched in round r or later.
C1_TextReturnedAtOnce ==
    \A r \in 1..max_rounds :
        (Len(responses) >= r /\ DirectText(responses[r])) =>
            /\ pc = "done"
            /\ result = Return(<<TextOf(responses[r])>>)
            /\ Len(calls) = r
            /\ Len(responses) = r
            /\ \A i \in 1..Len(dispatches) : dispatches[i].round < r

C1_Witness ==
    /\ pc = "done"
    /\ Len(responses) = 2
    /\ DirectText(responses[2])
    /\ Len(dispatches) > 0
    /\ result = Return(<<"text2">>)

\* C2: when the responses of rounds 1 and 2 both request tools and every
\* dispatch succeeds, generate_response ends after exactly three completion
\* calls: two calls inside rounds with the tools attached and one final call
\* without tools; it returns the text of the third response, and the tool log
\* lists the invocations of round 1, then those of round 2, in the order run.
C2_TwoRoundsThenFinal ==
    ( /\ Terminated
      /\ Len(responses) >= 2
      /\ RequestsTools(responses[1])
      /\ RequestsTools(responses[2])
      /\ TruthyObj(tool_manager)
      /\ \A i \in 1..Len(dispatches) : dispatches[i].outcome.kind = "return" )
    =>
    /\ pc = "done"
    /\ Len(calls) = 3
    /\ Len(responses) = 3
    /\ \A k \in 1..2 :
          /\ ~calls[k].final
          /\ calls[k].params.tools = tools
          /\ calls[k].params.tools # None
          /\ calls[k].params.tool_choice = Some("auto")
    /\ calls[3].final
    /\ calls[3].params.tools = None
    /\ (HasText(responses[3]) => result = Return(<<TextOf(responses[3])>>))
    /\ DispatchedAll(1)
    /\ DispatchedAll(2)
    /\ dispatches = DispatchesOf(1) \o DispatchesOf(2)
    /\ Len(tools_executed) = Len(dispatches)
    /\ \A i \in 1..Len(dispatches) :
          tools_executed[i] =
              <<"Round ", ToString(dispatches[i].round), ": ", dispatches[i].name>>

C2_Witness ==
    /\ pc = "done"
    /\ Len(calls) = 3
    /\ RequestsTools(responses[1])
    /\ RequestsTools(responses[2])
    /\ Len(DispatchesOf(1)) = 2
    /\ Len(DispatchesOf(2)) = 1
    /\ result = Return(<<"text3">>)

\* C3: in every state 0 <= current_round <= max_rounds = 2, current_round is
\* the number of completion calls issued inside rounds, at most 2 calls
\* carry tools and at most 3 calls are made in all.
C3_RoundBound ==
    /\ max_rounds = 2
    /\ current_round \in 0..max_rounds
    /\ current_round = Cardinality({k \in 1..Len(calls) : ~calls[k].final})
    /\ Cardinality({k \in 1..Len(calls) : calls[k].params.tools # None}) <= max_rounds
    /\ Len(calls) <= max_rounds + 1

C3_Witness ==
    /\ Len(calls) = 3
    /\ current_round = 2
    /\ Cardinality({k \in 1..Len(calls) : calls[k].params.tools # None}) = 2

\* C4: every invocation ends: it reaches the terminated state with a
\* returned string, whatever the completion responses (text, tool requests,
\* provider failure) and tool outcomes (text, not found, raised) are; after
\* it has returned, no completion call and no tool dispatch is made.
C4_Terminates ==
    /\ <>(pc = "done" /\ result.kind = "return")
    /\ [][pc = "done" =>
            (pc' = "done" /\ UNCHANGED <<calls, dispatches, result>>)]_vars

C4_Witness ==
    /\ pc = "done"
    /\ result.kind = "return"
    /\ Len(calls) = 3
    /\ responses[3].kind = "raise"
    /\ \E i \in 1..Len(dispatches) : dispatches[i].name \notin registered_tools

\* the k-th response was read with response.content[0].text and has no
\* text there
ReadFault(k) ==
    /\ responses[k].kind = "return"
    /\ ~HasText(responses[k])
    /\ (calls[k].final \/ ~UsesTools(responses[k].value, tool_manager))

\* C5: no exception leaves generate_response: after a provider failure of
\* any completion call, an exception of any tool dispatch, or a fault while
\* reading a response, the invocation has returned a string.
C5_NoExceptionEscapes ==
    /\ pc # "raised"
    /\ result.kind \in {"none", "return"}
    /\ (pc = "done" => result.kind = "return")
    /\ \A k \in 1..Len(responses) :
          (responses[k].kind = "raise" \/ ReadFault(k)) =>
              /\ pc = "done"
              /\ result.kind = "return"
              /\ result.value[1] \in {"Error generating response: ",
                                      "Error generating final response: "}
    /\ \A i \in 1..Len(dispatches) :
          dispatches[i].outcome.kind = "raise" =>
              /\ pc = "done"
              /\ result.kind = "return"
              /\ result.value[1] = "Unable to complete search: "

C5_Witness ==
    /\ pc = "done"
    /\ Len(responses) = 3
    /\ ReadFault(3)
    /\ result = Return(<<"Error generating final response: ",
                         "IndexError: list index out of range">>)

\* C6: if a tool invocation of round 1 raises, exactly one completion call
\* was made (no round-2 call, no final call) and the returned text is the
\* unable-to-complete message holding the failure's description.
C6_Round1ToolFailure ==
    \A i \in 1..Len(dispatches) :
        (dispatches[i].round = 1 /\ dispatches[i].outcome.kind = "raise") =>
            /\ pc = "done"
            /\ Len(calls) = 1
            /\ Len(responses) = 1
            /\ current_round = 1
            /\ result.kind = "return"
            /\ result.value[1] = "Unable to complete search: "
            /\ dispatches[i].outcome.value[1] \in Tokens(result.value)
            /\ result.value = <<"Unable to complete search: ", "Tool ",
                                dispatches[i].name, " failed: ",
                                dispatches[i].outcome.value[1]>>

C6_Witness ==
    /\ pc = "done"
    /\ Len(dispatches) = 2
    /\ dispatches[2].round = 1
    /\ dispatches[2].outcome.kind = "raise"
    /\ "Tool execution failed" \in Tokens(result.value)

\* C7: fail-fast inside a round: when the i-th tool invocation of a response
\* raises, it is the last dispatch ever made (invocations i+1.. are not
\* dispatched), and no result of that round (those of invocations 1..i-1
\* included) is in the message history or in the messages of any request.
C7_FailFast ==
    \A i \in 1..Len(dispatches) :
        dispatches[i].outcome.kind = "raise" =>
            LET r == dispatches[i].round
                uses == ToolUses(responses[r].value.content)
                ids == {uses[j].id : j \in 1..Len(uses)}
            IN  /\ i = Len(dispatches)
                /\ pc = "done"
                /\ DispatchedPrefix(r, Len(DispatchesOf(r)))
                /\ DispatchesOf(r)[Len(DispatchesOf(r))] = dispatches[i]
                /\ Len(calls) = r
                /\ ids \cap ResultIds(messages) = {}
                /\ \A k \in 1..Len(calls) :
                      ids \cap ResultIds(calls[k].params.messages) = {}
                /\ messages[Len(messages)] =
                      [role |-> "assistant", content |-> responses[r].value.content]

C7_Witness ==
    /\ pc = "done"
    /\ Len(dispatches) >= 2
    /\ dispatches[Len(dispatches)].outcome.kind = "raise"
    /\ dispatches[Len(dispatches)].round = 2
    /\ Len(DispatchesOf(2)) = 2
    /\ DispatchesOf(2)[1].outcome.kind = "return"
    /\ Len(tool_results) = 2

\* C8: if the completion call of round k (k = 1 or 2) fails, the invocation
\* has returned the error answer holding the provider's error, exactly k
\* calls were made, current_round is k, and no tool was dispatched in round
\* k or later.
C8_RoundCallFailure ==
    \A k \in 1..max_rounds :
        (Len(responses) >= k /\ responses[k].kind = "raise") =>
            /\ pc = "done"
            /\ result = Return(<<"Error generating response: ">> \o responses[k].value)
            /\ responses[k].value[1] \in Tokens(result.value)
            /\ Len(calls) = k
            /\ Len(responses) = k
            /\ current_round = k
            /\ \A i \in 1..Len(dispatches) : dispatches[i].round < k

C8_Witness ==
    /\ pc = "done"
    /\ Len(responses) = 2
    /\ responses[2].kind = "raise"
    /\ current_round = 2
    /\ Len(dispatches) > 0

\* C9: if the final call (the one without tools) fails, the invocation has
\* returned an answer string holding the error; the two rounds before it
\* ran once each: every tool invocation of each response dispatched once.
C9_FinalCallFailure ==
    (Len(responses) = 3 /\ responses[3].kind = "raise") =>
        /\ pc = "done"
        /\ result = Return(<<"Error generating final response: ">> \o responses[3].value)
        /\ responses[3].value[1] \in Tokens(result.value)
        /\ Len(calls) = 3
        /\ calls[3].final
        /\ current_round = 2
        /\ DispatchedAll(1)
        /\ DispatchedAll(2)
        /\ dispatches = DispatchesOf(1) \o DispatchesOf(2)

C9_Witness ==
    /\ pc = "done"
    /\ Len(responses) = 3
    /\ responses[3].kind = "raise"
    /\ Len(DispatchesOf(1)) > 0
    /\ Len(DispatchesOf(2)) > 0

\* the requests of the rounds / the request after the round bound
RoundCalls == {k \in 1..Len(calls) : ~calls[k].final}
FinalCalls == {k \in 1..Len(calls) : calls[k].final}

\* C10 as stated: when a tool schema list is supplied (tools is not None),
\* every request of a round carries that list with tool_choice auto; the
\* request after the round bound carries no tools and no tool_choice; when
\* no list is supplied no request carries tools.
C10_AsStated ==
    /\ tools # None =>
          \A k \in RoundCalls :
              /\ calls[k].params.tools = tools
              /\ calls[k].params.tool_choice = Some("auto")
    /\ \A k \in FinalCalls :
          calls[k].params.tools = None /\ calls[k].params.tool_choice = None
    /\ tools = None =>
          \A k \in 1..Len(calls) :
              calls[k].params.tools = None /\ calls[k].params.tool_choice = None

\* C10 amended: when a non-empty tool schema list is supplied, every request
\* of a round carries that list with tool_choice auto; the request after the
\* round bound carries no tools and no tool_choice; when no list or an empty
\* list is supplied no request carries tools or a tool_choice.
C10_ToolsAttached ==
    /\ TruthyList(tools) =>
          \A k \in RoundCalls :
              /\ calls[k].params.tools = tools
              /\ calls[k].params.tool_choice = Some("auto")
    /\ \A k \in FinalCalls :
          calls[k].params.tools = None /\ calls[k].params.tool_choice = None
    /\ ~TruthyList(tools) =>
          \A k \in 1..Len(calls) :
              calls[k].params.tools = None /\ calls[k].params.tool_choice = None

C10_Witness ==
    /\ Len(calls) = 3
    /\ TruthyList(tools)
    /\ calls[2].params.tool_choice = Some("auto")
    /\ calls[3].params.tool_choice = None

\* the history a successful round r must leave: the history its request was
\* sent with, then the assistant turn, then the user turn with the results
RoundExtension(r) ==
    LET uses == ToolUses(responses[r].value.content) IN
    calls[r].params.messages \o
    << [role |-> "assistant", content |-> responses[r].value.content],
       [role |-> "user",
        content |-> [i \in 1..Len(uses) |->
                        [type |-> "tool_result", tool_use_id |-> uses[i].id,
                         content |-> DispatchesOf(r)[i].outcome.value,
                         is_error |-> FALSE]]] >>

\* round r asked for tools and every one of its dispatches returned
RoundSucceeded(r) ==
    /\ Len(responses) >= r
    /\ RequestsTools(responses[r])
    /\ TruthyObj(tool_manager)
    /\ DispatchedAll(r)
    /\ \A i \in 1..Len(DispatchesOf(r)) : DispatchesOf(r)[i].outcome.kind = "return"

\* C11: after a round whose response requests tools and whose dispatches all
\* succeed, the message history is the history that round's request was sent
\* with, extended by exactly one assistant turn holding the response's raw
\* content blocks and then exactly one user turn holding one tool-result block
\* per invocation, in invocation order, each with its invocation's id and its
\* dispatch's text; this is in place once the tool loop is left, and it is
\* the history the next completion call is sent with.
C11_RoundExtendsHistory ==
    \A r \in 1..max_rounds :
        /\ (RoundSucceeded(r) /\ current_round = r /\ pc \in {"loop", "await_final", "done"})
              => messages = RoundExtension(r)
        /\ (Len(calls) > r /\ Len(responses) >= r /\ RequestsTools(responses[r]))
              => /\ RoundSucceeded(r)
                 /\ calls[r + 1].params.messages = RoundExtension(r)

C11_Witness ==
    /\ Len(calls) = 3
    /\ RoundSucceeded(1)
    /\ RoundSucceeded(2)
    /\ Len(ToolUses(responses[2].value.content)) = 2
    /\ Len(calls[3].params.messages) = 5
    /\ calls[3].params.messages[5].content[2].tool_use_id = "toolu_2_2"

\* position in the dispatch log of the dispatch of block id in round r
\* (0 when it was not dispatched)
DispatchPos(r, id) ==
    IF \E i \in 1..Len(dispatches) : dispatches[i].round = r /\ dispatches[i].id = id
    THEN CHOOSE i \in 1..Len(dispatches) :
            dispatches[i].round = r /\ dispatches[i].id = id
    ELSE 0

\* C12: tool dispatches are strictly sequential. The dispatches of a round
\* are the tool invocations of that round's response from the first one on,
\* each once, in their order of appearance; the dispatch log never goes back
\* to an earlier round; when the round-2 completion call is made every
\* round-1 invocation has been dispatched and has returned, and every round-2
\* dispatch comes after all of them. A dispatch is one synchronous call of
\* the single thread: while a request is awaited or the loop is at its head
\* no dispatch is open, and each dispatch is logged with its outcome.
C12_SequentialDispatch ==
    /\ \A r \in 1..max_rounds :
          IF Len(responses) >= r /\ responses[r].kind = "return"
          THEN DispatchedPrefix(r, Len(DispatchesOf(r)))
          ELSE DispatchesOf(r) = <<>>
    /\ \A i, j \in 1..Len(dispatches) :
          i < j => dispatches[i].round <= dispatches[j].round
    /\ \A i \in 1..Len(dispatches) : dispatches[i].round \in 1..max_rounds
    /\ Len(calls) >= 2 =>
          /\ DispatchedAll(1)
          /\ \A i \in 1..Len(DispatchesOf(1)) :
                DispatchesOf(1)[i].outcome.kind = "return"
          /\ \A i \in 1..Len(dispatches) :
                dispatches[i].round = 2 => i > Len(DispatchesOf(1))
    /\ (Len(calls) = 1 /\ pc = "await") => dispatches = <<>>
    /\ pc = "tools" =>
          /\ current_round = Len(responses)
          /\ Len(tool_results) = Len(DispatchesOf(current_round))
          /\ \A i \in 1..Len(dispatches) :
                dispatches[i].outcome.kind = "return"

C12_Witness ==
    /\ Len(calls) = 3
    /\ Len(DispatchesOf(1)) = 2
    /\ Len(DispatchesOf(2)) = 2
    /\ DispatchPos(1, "toolu_1_1") = 1
    /\ DispatchPos(1, "toolu_1_2") = 2
    /\ DispatchPos(2, "toolu_2_1") = 3
    /\ DispatchPos(2, "toolu_2_2") = 4

\* sequence a is an initial part of sequence b
IsPrefix(a, b) == Len(a) <= Len(b) /\ SubSeq(b, 1, Len(a)) = a

\* C13: the message history of an invocation is append-only and starts with
\* the caller's query. No step of a running invocation removes or rewrites a
\* message; the first message is always the query with role user; and the
\* list sent with each completion call is a prefix of the list sent with
\* every later call and of the current history.
C13_AppendOnly ==
    [][ /\ pc # "idle" => IsPrefix(messages, messages')
        /\ pc' # "idle" =>
              /\ Len(messages') >= 1
              /\ messages'[1] = [role |-> "user", content |-> query']
              /\ \A k \in 1..Len(calls') :
                    /\ calls'[k].params.messages[1] =
                          [role |-> "user", content |-> query']
                    /\ IsPrefix(calls'[k].params.messages, messages')
                    /\ \A l \in k..Len(calls') :
                          IsPrefix(calls'[k].params.messages,
                                   calls'[l].params.messages) ]_vars

C13_Witness ==
    /\ Len(calls) = 3
    /\ Len(calls[1].params.messages) = 1
    /\ Len(calls[2].params.messages) = 3
    /\ Len(calls[3].params.messages) = 5
    /\ query = "What is Python?"
    /\ calls[3].params.messages[1].content = "What is Python?"

\* the round guidance sentences and the terminal guidance of the final call
GuidanceTexts ==
    {"\nThis is your first opportunity to use tools.",
     "\nThis is your second and final opportunity to use tools.",
     "\nTool calling rounds are complete.",
     "\n\nTool calling rounds complete."}

\* C14: the system prompt of the round-1 call contains the "first
\* opportunity" guidance, that of the round-2 call the "second and final
\* opportunity" guidance, and the two prompts differ; the final call's prompt
\* carries the "rounds complete" terminal guidance; each prompt carries
\* exactly one guidance, at its end; and every prompt starts with the fixed
\* instruction block, followed by the prior-conversation text when a history
\* was supplied.
C14_RoundPrompts ==
    /\ \A k \in 1..Len(calls) :
          LET sys == calls[k].params.system IN
          /\ sys[1] = SYSTEM_PROMPT
          /\ conversation_history # None =>
                /\ Len(sys) = 4
                /\ sys[2] = "\n\nPrevious conversation:\n"
                /\ sys[3] = conversation_history[1]
          /\ conversation_history = None => Len(sys) = 2
          /\ \A i \in 1..Len(sys) : sys[i] \in GuidanceTexts <=> i = Len(sys)
          /\ (~calls[k].final /\ calls[k].round = 1) =>
                sys[Len(sys)] = "\nThis is your first opportunity to use tools."
          /\ (~calls[k].final /\ calls[k].round = 2) =>
                sys[Len(sys)] = "\nThis is your second and final opportunity to use tools."
          /\ calls[k].final =>
                sys[Len(sys)] = "\n\nTool calling rounds complete."
          /\ ~calls[k].final => calls[k].round \in {1, 2}
    /\ Len(calls) >= 2 => calls[1].params.system # calls[2].params.system

C14_Witness ==
    /\ Len(calls) = 3
    /\ calls[3].final
    /\ conversation_history = Some("User: hi")
    /\ "User: hi" \in Tokens(calls[1].params.system)
    /\ "User: hi" \in Tokens(calls[3].params.system)
    /\ "\nThis is your second and final opportunity to use tools."
           \in Tokens(calls[2].params.system)

\* ------------------------------------------- claims about the ToolManager

\* C15: ToolManager.execute_tool with a name that is not registered returns
\* the text "Tool '<name>' not found" naming the tool, does not raise, runs
\* no tool, and leaves the registry and every tool's provenance batch as
\* they were.
C15_UnregisteredDispatch ==
    [][ (tm_op'.op = "execute_tool" /\ tm_op'.name \notin tool_names(tm_tools)) =>
            /\ tm_op'.outcome = Return(<<"Tool '", tm_op'.name, "' not found">>)
            /\ ~tm_op'.ran
            /\ tm_tools' = tm_tools
            /\ last_sources' = last_sources ]_vars

C15_Witness ==
    /\ tm_op.op = "execute_tool"
    /\ tm_op.name = "unknown_tool"
    /\ tm_op.outcome = Return(<<"Tool '", "unknown_tool", "' not found">>)
    /\ Len(tm_tools) = 2
    /\ \A n \in tool_names(tm_tools) : Len(last_sources[n]) > 0

\* C16: get_last_sources returns the batch of the first tool, in
\* registration order, whose batch is not empty, and the empty list when
\* every registered tool's batch is empty; when two tools hold a batch, the
\* result is the batch of the one registered first, never the two merged.
C16_FirstNonEmptyBatch ==
    tm_op.op = "get_last_sources" =>
        /\ tm_op.outcome.kind = "return"
        /\ (\A i \in 1..Len(tm_tools) : last_sources[tm_tools[i]] = <<>>)
              => tm_op.outcome.value = <<>>
        /\ \A i \in 1..Len(tm_tools) :
              ( /\ last_sources[tm_tools[i]] # <<>>
                /\ \A j \in 1..(i - 1) : last_sources[tm_tools[j]] = <<>> )
              => tm_op.outcome.value = last_sources[tm_tools[i]]

C16_Witness ==
    /\ tm_op.op = "get_last_sources"
    /\ tm_tools = <<"get_course_outline", "search_course_content">>
    /\ Len(last_sources["search_course_content"]) = 2
    /\ Len(last_sources["get_course_outline"]) = 1
    /\ tm_op.outcome.value = last_sources["get_course_outline"]

\* C17: after reset_sources every registered tool's batch is empty and
\* get_last_sources yields the empty list, whatever was executed before;
\* reset_sources is idempotent: run again in the state it leaves, it
\* changes nothing.
C17_ResetClearsAll ==
    tm_op.op = "reset_sources" =>
        /\ \A n \in tool_names(tm_tools) : last_sources[n] = <<>>
        /\ get_last_sources(tm_tools, last_sources) = <<>>
        /\ reset_sources(tm_tools, last_sources) = last_sources

C17_Witness ==
    /\ tm_op.op = "reset_sources"
    /\ tm_op.held = {"search_course_content", "get_course_outline"}
    /\ Len(tm_tools) = 2

\* the last ToolManager operation ran the content-search tool and the store
\* came back with a result set without error
SearchRan ==
    /\ tm_op.op = "execute_tool"
    /\ tm_op.name = "search_course_content"
    /\ tm_op.ran
    /\ tm_op.call.search.kind = "return"
    /\ tm_op.call.search.value.error = None

\* C18: the content-search tool's batch is overwritten on every execution:
\* when the most recent execution found no match, the tool's batch is empty.
C18_EmptySearchEmptyBatch ==
    (SearchRan /\ tm_op.call.search.value.matches = <<>>) =>
        last_sources["search_course_content"] = <<>>

\* C19: after an execution of the content-search tool with a non-empty
\* result set, the tool's batch holds exactly one record per match of that
\* execution, in match order, and nothing else; a record's text is the
\* course title ("unknown" without one) followed by " - Lesson N" when the
\* match has a lesson number; a record has a link only when the match has a
\* lesson number and a known course title and the store resolves a link
\* for them, and the link is the resolved one.
C19_BatchOfLastSearch ==
    (SearchRan /\ tm_op.call.search.value.matches # <<>>) =>
        LET m == tm_op.call.search.value.matches
            batch == last_sources["search_course_content"]
        IN /\ Len(batch) = Len(m)
           /\ \A i \in 1..Len(m) :
                 LET title == IF m[i].course_title = None THEN "unknown"
                              ELSE m[i].course_title[1]
                     resolvable ==
                         /\ m[i].lesson_number # None
                         /\ m[i].course_title # None
                         /\ get_lesson_link(title, m[i].lesson_number[1]) # None
                 IN /\ batch[i].text =
                         IF m[i].lesson_number = None THEN <<title>>
                         ELSE <<title, " - Lesson ", ToString(m[i].lesson_number[1])>>
                    /\ batch[i].link # None <=> resolvable
                    /\ resolvable =>
                         batch[i].link = get_lesson_link(title, m[i].lesson_number[1])

C19_Witness ==
    /\ SearchRan
    /\ tm_op.call.search.value.matches =
           <<Match(None, Some(1)), Match(Some("Course A"), Some(1))>>
    /\ last_sources["search_course_content"] =
           << [text |-> <<"unknown", " - Lesson ", "1">>, link |-> None],
              [text |-> <<"Course A", " - Lesson ", "1">>,
               link |-> Some("https://example.com/Course A/lesson1")] >>

\* ------------------------------------------- claims about a run of queries

\* dispatch d ran the content-search tool and the store found matches: the
\* executions inside generate_response that assign a provenance batch
Emitted(d) ==
    /\ d.name \in tool_names(tm_tools)
    /\ d.call.kind = "search"
    /\ d.call.search.kind = "return"
    /\ d.call.search.value.error = None
    /\ d.call.search.value.matches # <<>>

\* the dispatches of the current invocation that assigned a batch
EmittedDispatches == SelectSeq(dispatches, Emitted)

ForeignRead(i) ==
    /\ qs[i].pc \in {"read", "done"}
    /\ qs[i].read # <<>>
    /\ qs[i].read_from # i

\* query i executed a tool that assigned a batch, and read nothing
ErasedRead(i) ==
    /\ qs[i].pc \in {"read", "done"}
    /\ qs[i].own
    /\ qs[i].read = <<>>

\* C21: two queries share one ToolManager and run generate_response,
\* get_last_sources() and reset_sources() without serialization. A query
\* reads the other query's batch, or reads nothing although its own tool
\* execution assigned a batch, only in a run in which one query took a step
\* while the other was between its start and its reset; and such a run
\* does reach both outcomes (C21_Witness).
C21_InterferenceNeedsInterleaving ==
    \A i \in QueryIds : (ForeignRead(i) \/ ErasedRead(i)) => overlapped

\* query 2 ran a search that found a match; query 1, which ran no tool, read
\* that batch and reset it; query 2 then read the empty list
C21_Witness ==
    /\ overlapped
    /\ ForeignRead(1)
    /\ qs[1].read_from = 2
    /\ ~qs[1].own
    /\ qs[1].pc = "done"
    /\ ErasedRead(2)
    /\ qs[2].pc = "read"

C23_RegisterByDeclaredName ==
    [][ tm_op'.op = "register_tool" =>
          LET declared == get_tool_definition(tm_op'.name).name IN
          IF declared = None \/ declared = Some("")
          THEN /\ tm_op'.outcome =
                     Raise("Tool must have a 'name' in its definition")
               /\ tm_tools' = tm_tools
          ELSE /\ tm_op'.outcome = Return(None)
               /\ tool_names(tm_tools') = tool_names(tm_tools) \cup {declared[1]}
               /\ tool_under(declared[1]) = tm_op'.name ]_vars

\* a tool with an empty name was refused by a manager that holds both tools
C23_Witness ==
    /\ tm_op.op = "register_tool"
    /\ tm_op.name = "EmptyNameTool"
    /\ tm_op.outcome.kind = "raise"
    /\ Len(tm_tools) = 2

\* C24: get_tool_definitions returns exactly one schema per registered
\* tool, in registration order, after any sequence of register_tool calls
\* that succeeded or failed: the list is empty for an empty manager, a
\* successful registration of a new tool adds that tool's schema at the end,
\* and a failed registration, a repeated one and every other operation
\* leave the list as it was.
C24_SchemasInRegistrationOrder ==
    [][ LET before == get_tool_definitions(tm_tools)
            after == get_tool_definitions(tm_tools')
            declared == get_tool_definition(tm_op'.name).name
        IN /\ tm_tools = <<>> => before = <<>>
           /\ Len(after) = Cardinality(tool_names(tm_tools'))
           /\ \A n \in tool_names(tm_tools') :
                 \E i \in 1..Len(after) : after[i].name = Some(n)
           /\ IF /\ tm_op'.op = "register_tool"
                 /\ tm_op'.outcome.kind = "return"
                 /\ declared[1] \notin tool_names(tm_tools)
              THEN after = Append(before, get_tool_definition(tm_op'.name))
              ELSE after = before
           /\ tm_op'.op = "get_tool_definitions" =>
                 tm_op'.outcome = Return(before) ]_vars

\* the outline tool was registered before the search tool
C24_Witness ==
    /\ tm_op.op = "get_tool_definitions"
    /\ tm_op.outcome.value =
          << [name |-> Some("get_course_outline"), required |-> <<"course_name">>],
             [name |-> Some("search_course_content"), required |-> <<"query">>] >>

\* ------------------------------------- claims about the tools' texts

\* C25: a content search whose result set is empty and carries no error
\* returns a text that is not empty and names every filter that was
\* supplied: the course name, and the lesson number whatever its value,
\* 0 included; with a course filter X alone the text is
\* "No relevant content found in course 'X'.".
C25_EveryFilterNamed ==
    (SearchRan /\ tm_op.call.search.value.matches = <<>>) =>
        LET text == tm_op.outcome.value
            c == tm_op.call.course_name
            n == tm_op.call.lesson_number
        IN /\ tm_op.outcome.kind = "return"
           /\ text # <<>>
           /\ c # None =>
                 \E i \in 1..(Len(text) - 1) :
                     text[i] = " in course '" /\ text[i + 1] = c[1]
           /\ n # None =>
                 \E i \in 1..(Len(text) - 1) :
                     text[i] = " in lesson " /\ text[i + 1] = ToString(n[1])
           /\ (c # None /\ n = None) =>
                 text = <<"No relevant content found", " in course '", c[1],
                          "'", ".">>

\* the outline tool was executed and the catalog held a lesson list
OutlineRendered ==
    /\ tm_op.op = "execute"
    /\ tm_op.call.resolve.kind = "return"
    /\ tm_op.call.resolve.value # None
    /\ tm_op.call.catalog.kind = "return"
    /\ tm_op.call.catalog.value # None
    /\ tm_op.call.catalog.value[1].lessons_json # None
    /\ tm_op.call.catalog.value[1].lessons_json[1].valid

\* the lesson list the catalog held
OutlineLessons == tm_op.call.catalog.value[1].lessons_json[1].lessons

\* the one-to-one maps of 1..n onto itself
Orders(n) ==
    {f \in [1..n -> 1..n] : \A i, j \in 1..n : f[i] = f[j] => i = j}

\* C26: the outline lists the lessons in ascending order of lesson number
\* whatever their order in the catalog, lessons of equal number in the order
\* the catalog has them, and the count it shows is the number of lessons.
\* (A lesson without number sorts as number 0.)
C26_OutlineSortedStable ==
    OutlineRendered =>
        LET text == tm_op.outcome.value
            n == Len(OutlineLessons)
            lines == SubSeq(text, Len(text) - 4 * n + 1, Len(text))
        IN /\ tm_op.outcome.kind = "return"
           /\ Len(text) >= 4 * n + 2
           /\ text[Len(text) - 4 * n - 1] = ToString(n)
           /\ text[Len(text) - 4 * n] = " total):**\n"
           /\ \E f \in Orders(n) :
                 /\ lines = lesson_lines([i \in 1..n |-> OutlineLessons[f[i]]])
                 /\ \A i, j \in 1..n : i < j =>
                       \/ lesson_key(OutlineLessons[f[i]])
                             < lesson_key(OutlineLessons[f[j]])
                       \/ /\ lesson_key(OutlineLessons[f[i]])
                               = lesson_key(OutlineLessons[f[j]])
                          /\ f[i] < f[j]

\* lessons 2, 1, 1 in the catalog come out as the two lessons 1 in their
\* catalog order, then lesson 2
C26_Witness ==
    /\ OutlineRendered
    /\ Len(OutlineLessons) = 3
    /\ OutlineLessons[1].lesson_number = Some(2)
    /\ OutlineLessons[2].lesson_number = Some(1)
    /\ OutlineLessons[3].lesson_number = Some(1)
    /\ SubSeq(tm_op.outcome.value, Len(tm_op.outcome.value) - 11,
              Len(tm_op.outcome.value)) =
          <<"1", ". ", "Lesson at 2", "\n", "1", ". ", "Lesson at 3", "\n",
            "2", ". ", "Lesson at 1", "\n">>

\* C27: the outline tool's execute does not raise for a bad input state: a
\* course name that does not resolve, a catalog without metadata for the
\* course, metadata without lesson data, and lesson data that does not
\* parse each come back as a text that says so.
C27_OutlineBadInputIsText ==
    (tm_op.op = "execute" /\ tm_op.call.resolve.kind = "return") =>
        LET c == tm_op.call
            text == tm_op.outcome.value
        IN /\ tm_op.outcome.kind = "return"
           /\ text # <<>>
           /\ c.resolve.value = None =>
                 text = <<"No course found matching '", c.course_name, "'">>
           /\ (c.resolve.value # None /\ c.catalog.kind = "return") =>
                 /\ c.catalog.value = None =>
                       text = <<"Course metadata not found for '",
                                c.resolve.value[1], "'">>
                 /\ (c.catalog.value # None
                       /\ c.catalog.value[1].lessons_json = None) =>
                       text = <<"No lesson information available for '",
                                c.resolve.value[1], "'">>
                 /\ (c.catalog.value # None
                       /\ c.catalog.value[1].lessons_json # None
                       /\ ~c.catalog.value[1].lessons_json[1].valid) =>
                       /\ Len(text) > 1
                       /\ text[1] = "Error retrieving course outline: "

\* lesson data that does not parse: the tool answers with the parser's
\* message and keeps the batch it held
C27_Witness ==
    /\ tm_op.op = "execute"
    /\ tm_op.call.catalog.kind = "return"
    /\ tm_op.call.catalog.value # None
    /\ tm_op.call.catalog.value[1].lessons_json # None
    /\ ~tm_op.call.catalog.value[1].lessons_json[1].valid
    /\ tm_op.outcome =
          Return(<<"Error retrieving course outline: ",
                   "Expecting value: line 1 column 1 (char 0)">>)
    /\ last_sources["get_course_outline"] = StaleOutline

\* ------------------------------------------ claims about /api/query

\* C28: the endpoint maps an exception of query processing by its message,
\* in this order: a message with "credit balance is too low" gives 402,
\* otherwise one with "invalid_request_error" gives 400, otherwise 500;
\* without exception it answers 200 with the answer, the sources and the
\* session id it used. A session is created exactly when the request
\* carries no session id (none, or an empty one), and the id used is then
\* the new one, otherwise the request's.
C28_QueryEndpointMapping ==
    api.stage = "response" =>
        LET o == api.query_outcome
            sid == api.request.session_id
            no_id == sid = None \/ sid = Some("")
        IN /\ api.session_created <=> no_id
           /\ api.session_used = IF no_id THEN api.created_id ELSE sid[1]
           /\ o.kind = "return" =>
                 api.response =
                    [status_code |-> 200,
                     body |-> [answer |-> o.value.answer,
                               sources |-> o.value.sources,
                               session_id |-> api.session_used]]
           /\ o.kind = "raise" =>
                 api.response.status_code =
                    IF "credit balance is too low" \in Tokens(o.value) THEN 402
                    ELSE IF "invalid_request_error" \in Tokens(o.value) THEN 400
                    ELSE 500

\* a message with both markers, the invalid-request one first, gives 402
C28_Witness ==
    /\ api.stage = "response"
    /\ api.query_outcome.kind = "raise"
    /\ api.query_outcome.value[1] = "invalid_request_error"
    /\ "credit balance is too low" \in Tokens(api.query_outcome.value)
    /\ api.response.status_code = 402
    /\ api.request.session_id = None
    /\ api.session_created

\* ------------------------------------------ claims about the final call

\* the r-th in-round call came back with a tool-invocation request that
\* generate_response acts on
ToolRound(r) ==
    /\ Len(responses) >= r
    /\ responses[r].kind = "return"
    /\ responses[r].value.stop_reason = "tool_use"
    /\ TruthyObj(tool_manager)

\* both rounds were tool rounds and every dispatch of both has succeeded
BoundReached ==
    /\ \A r \in 1..max_rounds : ToolRound(r)
    /\ \A i \in 1..Len(dispatches) : dispatches[i].outcome.kind = "return"
    /\ \A r \in 1..max_rounds : DispatchedAll(r)

\* C29: the final call, the one without tools, is issued if and only if the
\* round bound was reached: both in-round calls came back with
\* tool-invocation requests and every dispatch of both rounds succeeded. It
\* is issued at most once, as the call after the two in-round ones, and
\* never after an in-round text response, a provider failure or a tool
\* failure.
C29_FinalCallIffBound ==
    /\ FinalCalls # {} => BoundReached
    /\ (BoundReached /\ Terminated) => FinalCalls # {}
    /\ Cardinality(FinalCalls) <= 1
    /\ \A k \in FinalCalls :
          /\ k = max_rounds + 1
          /\ calls[k].params.tools = None
    /\ ( \/ \E r \in 1..max_rounds :
               /\ Len(responses) >= r
               /\ \/ responses[r].kind = "raise"
                  \/ responses[r].value.stop_reason # "tool_use"
         \/ \E i \in 1..Len(dispatches) : dispatches[i].outcome.kind = "raise" )
       => FinalCalls = {}

\* two tool rounds, three dispatches that all succeeded, then the final call
C29_Witness ==
    /\ pc = "await_final"
    /\ FinalCalls = {3}
    /\ BoundReached
    /\ Len(dispatches) = 3

\* --------------------------- claims about the most recent provenance

\* the place of a registered tool in the registry
RegisteredAt(n) == CHOOSE i \in 1..Len(tm_tools) : tm_tools[i] = n

\* the tools registered before tool n that hold a batch
EarlierHolders(n) ==
    {m \in tool_names(tm_tools) :
        RegisteredAt(m) < RegisteredAt(n) /\ last_sources[m] # <<>>}

C31_DispatchVerbatim ==
    [][ (tm_op'.op = "execute_tool" /\ tm_op'.name \in tool_names(tm_tools)) =>
          LET run == tool_run(tm_op'.name, last_sources[tm_op'.name],
                              tm_op'.call)
          IN /\ tm_op'.ran
             /\ tm_op'.outcome = run.outcome
             /\ tm_op'.call.kind =
                   (IF tm_op'.name = "search_course_content" THEN "search"
                    ELSE "outline")
             /\ last_sources' =
                   [last_sources EXCEPT ![tm_op'.name] = run.last_sources]
             /\ tm_tools' = tm_tools ]_vars

\* the store raised inside the search tool and the caller got the exception
C31_Witness ==
    /\ tm_op.op = "execute_tool"
    /\ tm_op.name = "search_course_content"
    /\ tm_op.ran
    /\ tm_op.call.search.kind = "raise"
    /\ tm_op.outcome = Raise("Tool execution failed")

\* ------------------------------------------------ claims about retries

\* C32: nothing is retried inside one generate_response invocation: a
\* tool-invocation request is dispatched at most once, a round issues at
\* most one completion call, and after the first provider failure or tool
\* failure no completion call and no dispatch is made: the failed call is
\* the last call, the failed dispatch the last dispatch, and the invocation
\* has ended.
C32_NoRetries ==
    /\ \A i, j \in 1..Len(dispatches) :
          (dispatches[i].round = dispatches[j].round
             /\ dispatches[i].id = dispatches[j].id) => i = j
    /\ \A r \in 1..max_rounds :
          Cardinality({k \in RoundCalls : calls[k].round = r}) <= 1
    /\ \A k \in 1..Len(responses) :
          responses[k].kind = "raise" =>
              /\ k = Len(calls)
              /\ Terminated
              /\ \A i \in 1..Len(dispatches) : dispatches[i].round < k
    /\ \A i \in 1..Len(dispatches) :
          dispatches[i].outcome.kind = "raise" =>
              /\ i = Len(dispatches)
              /\ Len(calls) = dispatches[i].round
              /\ Terminated

\* the first tool of round 2 raised: the second block of that response was
\* never dispatched and no third call was made
C32_Witness ==
    /\ pc = "done"
    /\ Len(calls) = 2
    /\ Len(responses) = 2
    /\ RequestsTools(responses[2])
    /\ Len(ToolUses(responses[2].value.content)) = 2
    /\ Len(DispatchesOf(2)) = 1
    /\ Len(dispatches) > 0
    /\ dispatches[Len(dispatches)].outcome.kind = "raise"

\* ------------------------------------------ claims about round state

\* the ToolCallState invocation i works on
StateOf(i) == round_states[state_of(i)]

\* C33: round state is local to one generate_response invocation. Of two
\* invocations on one AIGenerator, run one after the other or interleaved,
\* each starts with round counter 0, a message history that holds its own
\* query and nothing else, and an empty tool log; and a step of one
\* invocation leaves the round counter, message history and tool log of the
\* other as they were.
C33_RoundStateLocal ==
    [][ \A i \in InvocationIds :
          /\ (inv[i].pc = "idle" /\ inv'[i].pc # "idle") =>
                StateOf(i)' =
                    [current_round |-> 0,
                     messages |-> <<[role |-> "user", content |-> inv'[i].query]>>,
                     tools_executed |-> <<>>]
          /\ inv'[i] = inv[i] => StateOf(i)' = StateOf(i) ]_vars

\* invocation 1 is in its second round with one tool logged while
\* invocation 2, started later with another query, waits for its first
\* response
C33_Witness ==
    /\ inv[1].pc = "await"
    /\ StateOf(1).current_round = 2
    /\ Len(StateOf(1).tools_executed) = 1
    /\ inv[1].query = "What is Python?"
    /\ inv[2].pc = "await"
    /\ inv[2].query = ""
    /\ StateOf(2).current_round = 1
    /\ StateOf(2).messages = <<[role |-> "user", content |-> ""]>>

\* ------------------------------------------------ claims about the tool log

\* the dispatches that returned, in the order they ran
ReturnedDispatches == SelectSeq(dispatches, LAMBDA d : d.outcome.kind = "return")

\* the messages rounds 1..n add to the history, rebuilt from the responses
\* and the dispatch outcomes alone
RECURSIVE RoundsHistory(_)
RoundsHistory(n) ==
    IF n = 0 THEN <<>>
    ELSE RoundsHistory(n - 1)
         \o <<[role |-> "assistant", content |-> responses[n].value.content]>>
         \o (IF DispatchesOf(n) = <<>> THEN <<>>
             ELSE <<[role |-> "user",
                     content |-> [i \in 1..Len(DispatchesOf(n)) |->
                        [type |-> "tool_result",
                         tool_use_id |-> DispatchesOf(n)[i].id,
                         content |-> DispatchesOf(n)[i].outcome.value,
                         is_error |-> FALSE]]]>>)

\* C34: the tool log holds exactly the tool invocations whose dispatch
\* returned, in the order they ran, each as "Round <r>: <name>" with r the
\* round it ran in; a dispatch that raised is not in the log; and the log
\* decides nothing: every completion call carries the query followed by the
\* responses and tool results of the rounds before it, and every dispatch
\* is of a tool_use block of its round's response.
C34_LogOfReturnedDispatches ==
    /\ Len(tools_executed) = Len(ReturnedDispatches)
    /\ \A i \in 1..Len(ReturnedDispatches) :
          tools_executed[i] = <<"Round ", ToString(ReturnedDispatches[i].round),
                                ": ", ReturnedDispatches[i].name>>
    /\ \A i \in 1..Len(dispatches) :
          /\ dispatches[i].outcome.kind = "raise" =>
                Len(tools_executed) = i - 1
          /\ \E b \in 1..Len(responses[dispatches[i].round].value.content) :
                LET blk == responses[dispatches[i].round].value.content[b]
                IN /\ blk.type = "tool_use"
                   /\ blk.name = dispatches[i].name
                   /\ blk.id = dispatches[i].id
    /\ \A k \in 1..Len(calls) :
          calls[k].params.messages =
              <<[role |-> "user", content |-> query]>>
              \o RoundsHistory(IF calls[k].final THEN k - 1 ELSE calls[k].round - 1)

\* round 1 ran two tools, round 2 ran one and then one that raised: three
\* entries in the log
C34_Witness ==
    /\ pc = "done"
    /\ Len(dispatches) = 4
    /\ dispatches[4].outcome.kind = "raise"
    /\ Len(DispatchesOf(1)) = 2
    /\ Len(tools_executed) = 3
    /\ tools_executed[3] = <<"Round ", "2", ": ", dispatches[3].name>>

\* ------------------------------------- claims about errors fed back as text

\* dispatch d ran a search that came back with an error string
SearchFailedSoftly(d) ==
    /\ d.call.kind = "search"
    /\ d.call.search.kind = "return"
    /\ TruthyStr(d.call.search.value.error)

\* C35: when store.search comes back with an error string, the content
\* search tool returns that string as its text and does not raise; inside
\* generate_response the string goes back to the model as a tool result
\* without error flag in every later completion call, and the invocation
\* does not end on it: unless a later dispatch of the round raises, the
\* next completion call is made.
C35_SearchErrorIsToolText ==
    \A i \in 1..Len(dispatches) :
        LET d == dispatches[i] IN
        SearchFailedSoftly(d) =>
            /\ d.outcome = Return(<<d.call.search.value.error[1]>>)
            /\ \A k \in 1..Len(calls) :
                  k > d.round =>
                     \E m \in 2..Len(calls[k].params.messages) :
                        LET msg == calls[k].params.messages[m] IN
                        /\ msg.role = "user"
                        /\ \E b \in 1..Len(msg.content) :
                              msg.content[b] =
                                  [type |-> "tool_result", tool_use_id |-> d.id,
                                   content |-> <<d.call.search.value.error[1]>>,
                                   is_error |-> FALSE]
            /\ ( /\ Terminated
                 /\ \A j \in 1..Len(dispatches) :
                       dispatches[j].outcome.kind = "return" )
               => /\ Len(calls) > d.round
                  /\ ~IsPrefix(<<"Unable to complete search: ">>, result.value)

\* the search of round 1 came back with an error string, round 2 and the
\* final call followed and the answer is the final text
C35_Witness ==
    /\ pc = "done"
    /\ Len(dispatches) > 0
    /\ SearchFailedSoftly(dispatches[1])
    /\ dispatches[1].round = 1
    /\ Len(calls) = 3
    /\ result = Return(<<"text3">>)

\* -------------------------------------- claims about the message lists sent

\* msgs starts with a user message and alternates user and assistant
Alternates(msgs) ==
    \A m \in 1..Len(msgs) :
        msgs[m].role = IF m % 2 = 1 THEN "user" ELSE "assistant"

\* C36: the message list of every completion call starts with a user
\* message, alternates user and assistant and ends with a user message,
\* whatever the responses are, a response with stop reason tool_use and no
\* tool_use block included.
C36_MessagesAlternate ==
    \A k \in 1..Len(calls) :
        LET msgs == calls[k].params.messages IN
        /\ Len(msgs) > 0
        /\ Alternates(msgs)
        /\ msgs[Len(msgs)].role = "user"

\* dispatch d asked for a name the manager does not hold
Unregistered(d) == d.name \notin tool_names(tm_tools)

\* no dispatch of round r raised
RoundRanClean(r) ==
    \A j \in 1..Len(DispatchesOf(r)) : DispatchesOf(r)[j].outcome.kind = "return"

\* the tool loop of round r is over
RoundToolsOver(r) == current_round > r \/ pc \notin {"await", "tools"}

\* C37: a request for a tool name that is not registered does not end
\* generate_response with an error answer. The dispatch returns the
\* not-found text, the invocation is entered in the tool log, the text is
\* the content of a tool_result block without error flag in every later
\* completion call, the other tool_use blocks of the response are
\* dispatched as well, and the next completion call is made (unless another
\* dispatch of the round raises); the answer is a tool-failure answer only
\* when some dispatch raised.
C37_UnregisteredGoesOn ==
    \A i \in 1..Len(dispatches) :
        LET d == dispatches[i] IN
        Unregistered(d) =>
            /\ d.outcome = Return(<<"Tool '", d.name, "' not found">>)
            /\ \E e \in 1..Len(tools_executed) :
                  tools_executed[e] = <<"Round ", ToString(d.round), ": ", d.name>>
            /\ \A k \in 1..Len(calls) :
                  k > d.round =>
                     \E m \in 2..Len(calls[k].params.messages) :
                        LET msg == calls[k].params.messages[m] IN
                        /\ msg.role = "user"
                        /\ \E b \in 1..Len(msg.content) :
                              msg.content[b] =
                                  [type |-> "tool_result", tool_use_id |-> d.id,
                                   content |-> <<"Tool '", d.name, "' not found">>,
                                   is_error |-> FALSE]
            /\ (RoundToolsOver(d.round) /\ RoundRanClean(d.round)) =>
                  /\ DispatchedAll(d.round)
                  /\ (Terminated => Len(calls) > d.round)
                  /\ (Terminated /\ ReturnedDispatches = dispatches) =>
                        ~IsPrefix(<<"Unable to complete search: ">>, result.value)

\* round 1 asked for an unregistered tool and then for the search tool:
\* both were dispatched, round 2 and the final call followed
C37_Witness ==
    /\ pc = "done"
    /\ Len(DispatchesOf(1)) = 2
    /\ Unregistered(dispatches[1])
    /\ dispatches[2].name = "search_course_content"
    /\ Len(calls) = 3
    /\ result = Return(<<"text3">>)

\* the tool_result blocks of a message list (the first message is the query)
ResultBlocks(msgs) ==
    UNION {{msgs[i].content[j] : j \in 1..Len(msgs[i].content)}
           : i \in {k \in 2..Len(msgs) : msgs[k].role = "user"}}

\* C38: no tool_result block with the error flag is part of a message list
\* sent to the completion API: the block built when a dispatch raises stays
\* in the local list of _execute_round_tools.
C38_NoErrorBlockSent ==
    \A k \in 1..Len(calls) :
        \A b \in ResultBlocks(calls[k].params.messages) : ~b.is_error

\* a dispatch of round 2 raised after round 1 had sent its results on: the
\* flagged block was built and two calls were made
C38_Witness ==
    /\ pc = "done"
    /\ Len(calls) = 2
    /\ ResultBlocks(calls[2].params.messages) # {}
    /\ \E j \in 1..Len(tool_results) : tool_results[j].is_error

\* ------------------------------------- claims about the missing tool manager

\* C39: generate_response called without a tool manager makes exactly one
\* completion call and dispatches no tool, whatever the response is (text,
\* a request for tools, a provider failure); it returns the text of the
\* response's first block, or an answer starting with "Error generating
\* response: " when the call failed or the first block holds no text.
C39_NoManagerOneCall ==
    (pc # "idle" /\ tool_manager = None) =>
        /\ Len(calls) <= 1
        /\ dispatches = <<>>
        /\ pc \in {"loop", "await", "done"}
        /\ pc = "loop" => calls = <<>>
        /\ pc = "await" => (Len(calls) = 1 /\ responses = <<>>)
        /\ pc = "done" =>
              /\ Len(calls) = 1
              /\ Len(responses) = 1
              /\ result.kind = "return"
              /\ IF HasText(responses[1])
                 THEN result.value = <<TextOf(responses[1])>>
                 ELSE IsPrefix(<<"Error generating response: ">>, result.value)

\* without a tool manager the response asked for a tool after a text
\* block: the text is the answer and nothing was dispatched
C39_Witness ==
    /\ pc = "done"
    /\ tool_manager = None
    /\ Len(responses) = 1
    /\ RequestsTools(responses[1])
    /\ responses[1].value.stop_reason = "tool_use"
    /\ result = Return(<<"text1">>)
    /\ dispatches = <<>>

\* ------------------------------------ claims about provenance after a failure

\* generate_response returned a tool-failure answer
ToolFailureAnswer ==
    /\ pc = "done"
    /\ IsPrefix(<<"Unable to complete search: ">>, result.value)

\* generate_response returned a provider-failure answer
ProviderFailureAnswer ==
    /\ pc = "done"
    /\ \/ IsPrefix(<<"Error generating response: ">>, result.value)
       \/ IsPrefix(<<"Error generating final response: ">>, result.value)

====
